---- MODULE Spec2Model ----
(***************************************************************************)
(* Model of the turtle-lsp language server: the workspace Indexer          *)
(* (src/src/indexer.ts), the NavigationEngine and the TurtleLanguageServer *)
(* handlers (src/unnamed/part_001), the text utilities                     *)
(* (src/unnamed/part_002) and the vocabulary loading of the                *)
(* CompletionEngine (src/src/completion.ts, lines 1-333).                  *)
(*                                                                         *)
(* Strings are TLA+ strings; character positions are 0-based as in         *)
(* JavaScript, so the character at JS index i of s is SubSeq(s, i+1, i+1). *)
(***************************************************************************)
EXTENDS Integers, Sequences, FiniteSets, TLC

(***************************************************************************)
(* JavaScript string primitives                                            *)
(***************************************************************************)
Lower == {"a","b","c","d","e","f","g","h","i","j","k","l","m","n","o","p","q","r","s","t","u","v","w","x","y","z"}
Upper == {"A","B","C","D","E","F","G","H","I","J","K","L","M","N","O","P","Q","R","S","T","U","V","W","X","Y","Z"}
Digit == {"0","1","2","3","4","5","6","7","8","9"}

\* s.charAt(i); "" outside the string
CharAt(s, i) == IF i >= 0 /\ i < Len(s) THEN SubSeq(s, i + 1, i + 1) ELSE ""

\* s.slice(a, b) for 0 <= a, with b clamped to the length
Slice(s, a, b) ==
    LET hi == IF b > Len(s) THEN Len(s) ELSE b
    IN  IF a >= hi THEN "" ELSE SubSeq(s, a + 1, hi)

\* s.startsWith(p, at)
StartsWithAt(s, p, at) == Slice(s, at, at + Len(p)) = p /\ at + Len(p) <= Len(s)

RECURSIVE IndexOfFrom(_, _, _)
\* s.indexOf(sub, from): first index >= from where sub occurs, else -1
IndexOfFrom(s, sub, from) ==
    IF from + Len(sub) > Len(s) THEN -1
    ELSE IF StartsWithAt(s, sub, from) THEN from
    ELSE IndexOfFrom(s, sub, from + 1)

IndexOf(s, sub) == IndexOfFrom(s, sub, 0)

\* character classes of the regular expressions
IsAlpha(c) == c \in Lower \cup Upper
\* \w
IsWordChar(c) == c \in Lower \cup Upper \cup Digit \cup {"_"}
\* [\w-]
IsNameChar(c) == IsWordChar(c) \/ c = "-"
\* \s (the white space that occurs in the modelled texts)
IsSpace(c) == c \in {" ", "\t", "\n", "\r"}

RECURSIVE SplitFrom(_, _, _)
\* text.split(/\r?\n/) from position i, with the current piece starting at b
SplitFrom(s, b, i) ==
    IF i >= Len(s) THEN <<Slice(s, b, Len(s))>>
    ELSE IF CharAt(s, i) = "\n"
         THEN <<Slice(s, b, IF i > b /\ CharAt(s, i - 1) = "\r" THEN i - 1 ELSE i)>>
              \o SplitFrom(s, i + 1, i + 1)
         ELSE SplitFrom(s, b, i + 1)

SplitLines(s) == SplitFrom(s, 0, 0)

RECURSIVE SkipSpace(_, _)
\* index of the first non-space character at or after i
SkipSpace(s, i) == IF i < Len(s) /\ IsSpace(CharAt(s, i)) THEN SkipSpace(s, i + 1) ELSE i

RECURSIVE SkipSpaceBack(_, _)
\* end (exclusive) of s[0..e) without its trailing white space
SkipSpaceBack(s, e) == IF e > 0 /\ IsSpace(CharAt(s, e - 1)) THEN SkipSpaceBack(s, e - 1) ELSE e

\* s.trim()
Trim(s) ==
    LET b == SkipSpace(s, 0)
        e == SkipSpaceBack(s, Len(s))
    IN  IF b >= e THEN "" ELSE Slice(s, b, e)

RECURSIVE NameRunEnd(_, _)
\* end (exclusive) of the maximal run of [\w-] characters starting at i
NameRunEnd(s, i) == IF i < Len(s) /\ IsNameChar(CharAt(s, i)) THEN NameRunEnd(s, i + 1) ELSE i

RECURSIVE NonSpaceRunEnd(_, _)
\* end (exclusive) of the maximal run of [^\s>] characters starting at i
NonSpaceRunEnd(s, i) ==
    IF i < Len(s) /\ ~IsSpace(CharAt(s, i)) /\ CharAt(s, i) # ">"
    THEN NonSpaceRunEnd(s, i + 1) ELSE i

\* /[A-Za-z][\w-]*:[\w-]+/ anchored at i: the end (exclusive) of the match,
\* or -1.  ':' is not in [\w-], so the greedy run ends at the only possible
\* position of the colon.
PrefixedNameEndAt(s, i) ==
    IF ~IsAlpha(CharAt(s, i)) THEN -1
    ELSE LET c == NameRunEnd(s, i + 1)
         IN  IF CharAt(s, c) # ":" THEN -1
             ELSE LET e == NameRunEnd(s, c + 1)
                  IN  IF e > c + 1 THEN e ELSE -1

(***************************************************************************)
(* src/unnamed/part_002: offsetToLineInfo                                  *)
(***************************************************************************)
Position(l, c) == [line |-> l, character |-> c]
Range(l, s, e) == [start |-> Position(l, s), end |-> Position(l, e)]

\* offsetToLineInfo(text, offset)
offsetToLineInfo(text, offset) ==
    IF offset < 0 THEN Position(0, 0)
    ELSE LET lines == SplitLines(Slice(text, 0, offset))
         IN  Position(Len(lines) - 1, Len(lines[Len(lines)]))

\* the range {start: lineInfo, end: lineInfo + length} built at an offset
RangeAtOffset(text, idx, length) ==
    LET li == offsetToLineInfo(text, idx)
    IN  Range(li.line, li.character, li.character + length)

(***************************************************************************)
(* The modelled document texts                                             *)
(***************************************************************************)
\* a statement about ex:Bob with no prefix declaration (does not parse)
TextBob == "ex:Bob a rdf:Property ."
\* the same statement after ex:Bob was edited to ex:Bobby
TextBobby == "ex:Bobby a rdf:Property ."
\* a well-formed document that declares ex and has subject ex:Bob
TextDeclBob == "@prefix ex: <http://e/> .\nex:Bob a ex:P ."
\* ex:Bob used as an object only
TextAlice == "ex:Alice ex:knows ex:Bob ."
\* a well-formed document that declares the prefixes rdf and constructor
TextCtor == "@prefix rdf: <http://r/> .\n@prefix constructor: <http://c/> .\nrdf:x a rdf:P ."

\* two subjects, the first written as an IRI and the second a term of the
\* rdf vocabulary, in a text that uses a prefix it does not declare
TextIri == "<http://e/Bob> a rdf:Property .\nrdf:type a rdf:Property ."
\* a declaration of the prefix constructor in a document that does not
\* parse, ex being undeclared
TextCtorBroken == "@prefix constructor: <http://c/> .\nex:Bob a ex:P ."
Texts == {TextBob, TextBobby, TextDeclBob, TextAlice, TextCtor, TextIri, TextCtorBroken}

\* the documents of the diagnostics pass
\* a declared prefix in use, an undeclared one, and a last line without a
\* terminator
TextFoaf == "@prefix foaf: <http://xmlns.com/foaf/0.1/> .\nex:Bob foaf:knows ex:Alice"
\* a well-formed document that declares ex twice
TextTwice == "@prefix ex: <http://e/> .\n@prefix ex: <http://f/> .\nex:a a ex:B ."
\* the same declarations in a document that does not parse
TextTwiceBroken == "@prefix ex: <http://e/> .\n@prefix ex: <http://f/> .\nex:a a ex:B"
\* both declaration styles, neither prefix being used by a statement
TextSparql == "PREFIX ex: <http://e/>\n@prefix un: <http://u/> .\nrdf:x a rdf:type ."
\* lines inside and outside brackets, with and without a terminator
TextNest == "ex:a ex:b [ ex:c ex:d ]\nex:Bob # c\nex:Solo\nex:x ex:y (\n ex:z\n) ."
\* brackets and parentheses inside a string, an IRI and a comment, then a
\* line with more closing than opening brackets and an opening parenthesis
TextQuoted == "ex:a ex:b \"x ( [\" , <http://e/(> . # ) ]\nex:c ex:d ( ] ]\nex:e ) ."
\* a long string that goes over two lines, with a parenthesis in it
TextLong == "ex:a ex:b \"\"\"one (\ntwo\"\"\" .\nex:c ex:d ex:e"
DiagnosticTexts == {TextFoaf, TextTwice, TextTwiceBroken, TextSparql, TextNest,
                    TextQuoted, TextLong}

\* a document being typed: two words without a prefix, the first beginning
\* with the keyword a, the second the beginning of the keyword PREFIX
TextTyping == "alice\n\npre"
TypedTexts == {TextTyping}

\* the texts that are indexed
IndexedTexts == Texts \cup DiagnosticTexts \cup TypedTexts

\* the texts and the empty file
AllTexts == IndexedTexts \cup {""}

(***************************************************************************)
(* TextDocument (vscode-languageserver-textdocument): positions, offsets   *)
(* and getText(range)                                                      *)
(***************************************************************************)
RECURSIVE LineOffsetsFrom(_, _)
\* the offsets at which the lines after position i start
LineOffsetsFrom(text, i) ==
    IF i >= Len(text) THEN <<>>
    ELSE IF CharAt(text, i) = "\n" \/ (CharAt(text, i) = "\r" /\ CharAt(text, i + 1) # "\n")
         THEN <<i + 1>> \o LineOffsetsFrom(text, i + 1)
         ELSE LineOffsetsFrom(text, i + 1)

\* the line offsets of every modelled text, computed once
LineOffsetsTable == [text \in AllTexts |-> <<0>> \o LineOffsetsFrom(text, 0)]

LineOffsets(text) == LineOffsetsTable[text]

Clamp(x, lo, hi) == IF x < lo THEN lo ELSE IF x > hi THEN hi ELSE x

\* doc.offsetAt(position)
OffsetAt(text, position) ==
    LET lineOffsets == LineOffsets(text)
        n == Len(lineOffsets)
    IN  IF position.line >= n THEN Len(text)
        ELSE IF position.line < 0 THEN 0
        ELSE LET lineOffset == lineOffsets[position.line + 1]
                 nextLineOffset == IF position.line + 1 < n THEN lineOffsets[position.line + 2]
                                   ELSE Len(text)
             IN  Clamp(lineOffset + position.character, lineOffset, nextLineOffset)

\* doc.positionAt(offset)
PositionAt(text, offset) ==
    LET lineOffsets == LineOffsets(text)
        o == Clamp(offset, 0, Len(text))
        line == CHOOSE l \in 1..Len(lineOffsets) :
                  /\ lineOffsets[l] <= o
                  /\ \A m \in (l + 1)..Len(lineOffsets) : lineOffsets[m] > o
    IN  Position(line - 1, o - lineOffsets[line])

\* doc.getText(range)
GetText(text, range) == Slice(text, OffsetAt(text, range.start), OffsetAt(text, range.end))

(***************************************************************************)
(* The n3 parser (external library) on the modelled texts: whether         *)
(* parse(text) returns, the parser's _prefixes in insertion order and the  *)
(* subject value of every quad.  An undeclared prefix makes parse throw.   *)
(***************************************************************************)
N3Parse(text) ==
    CASE text = TextDeclBob ->
           [ok |-> TRUE,
            prefixes |-> << <<"_", "b0_">>, <<"ex", "http://e/">> >>,
            subjects |-> <<"http://e/Bob">>]
      [] text = TextCtor ->
           [ok |-> TRUE,
            prefixes |-> << <<"_", "b0_">>, <<"rdf", "http://r/">>,
                            <<"constructor", "http://c/">> >>,
            subjects |-> <<"http://r/x">>]
      [] text = TextTwice ->
           [ok |-> TRUE,
            prefixes |-> << <<"_", "b0_">>, <<"ex", "http://f/">> >>,
            subjects |-> <<"http://f/a">>]
      [] OTHER -> [ok |-> FALSE, prefixes |-> <<>>, subjects |-> <<>>]

(***************************************************************************)
(* src/src/indexer.ts: the Document Extractor                              *)
(***************************************************************************)
LowerSeq == "abcdefghijklmnopqrstuvwxyz"
UpperSeq == "ABCDEFGHIJKLMNOPQRSTUVWXYZ"

RECURSIVE ToLower(_)
\* s.toLowerCase()
ToLower(s) ==
    IF s = "" THEN ""
    ELSE LET c == CharAt(s, 0)
             u == IndexOf(UpperSeq, c)
         IN  (IF u >= 0 THEN CharAt(LowerSeq, u) ELSE c) \o ToLower(Slice(s, 1, Len(s)))

\* line.trim().match(/^@?prefix\s+([A-Za-z][\w-]*):\s*<([^>]+)>/i):
\* [matched, prefix, iri]
PrefixDeclMatch(trimmed) ==
    LET i0 == IF CharAt(trimmed, 0) = "@" THEN 1 ELSE 0
        j  == i0 + 6
        k  == SkipSpace(trimmed, j)
        c  == NameRunEnd(trimmed, k + 1)
        m  == SkipSpace(trimmed, c + 1)
        g  == IndexOfFrom(trimmed, ">", m + 1)
        ok == /\ ToLower(Slice(trimmed, i0, j)) = "prefix"
              /\ k > j
              /\ IsAlpha(CharAt(trimmed, k))
              /\ CharAt(trimmed, c) = ":"
              /\ CharAt(trimmed, m) = "<"
              /\ g > m + 1
    IN  IF ok THEN [matched |-> TRUE, prefix |-> Slice(trimmed, k, c), iri |-> Slice(trimmed, m + 1, g)]
        ELSE [matched |-> FALSE, prefix |-> "", iri |-> ""]

RECURSIVE NamespaceEntriesParsed(_, _, _)
\* collectNamespaceEntries, try branch: the loop over Object.entries(_prefixes)
NamespaceEntriesParsed(text, prefixes, i) ==
    IF i > Len(prefixes) THEN <<>>
    ELSE LET prefix == prefixes[i][1]
             idx == IndexOf(text, prefix \o ":")
         IN  (IF idx < 0 THEN <<>>
              ELSE <<[prefix |-> prefix, iri |-> prefixes[i][2],
                      range |-> RangeAtOffset(text, idx, Len(prefix))]>>)
             \o NamespaceEntriesParsed(text, prefixes, i + 1)

\* the range of a label of the given length found at column start of line idx
RangeInLine(idx, start, length) == Range(idx, start, start + length)

\* the entry {label, range} pushed for a label found in line number idx
LabelEntryInLine(line, idx, label) ==
    [label |-> label, range |-> RangeInLine(idx, IndexOf(line, label), Len(label))]

\* the entry pushed at lines 181-191 for one line, mt being its match
NamespaceEntryOfLine(line, idx, mt) ==
    IF mt.matched
    THEN <<[prefix |-> mt.prefix, iri |-> mt.iri,
            range |-> RangeInLine(idx, IndexOf(line, mt.prefix), Len(mt.prefix))]>>
    ELSE <<>>

RECURSIVE NamespaceEntriesByLine(_, _)
\* collectNamespaceEntries, catch branch: one regular expression per line
NamespaceEntriesByLine(lines, i) ==
    IF i > Len(lines) THEN <<>>
    ELSE NamespaceEntryOfLine(lines[i], i - 1, PrefixDeclMatch(Trim(lines[i])))
         \o NamespaceEntriesByLine(lines, i + 1)

collectNamespaceEntries(text) ==
    IF N3Parse(text).ok THEN NamespaceEntriesParsed(text, N3Parse(text).prefixes, 1)
    ELSE NamespaceEntriesByLine(SplitLines(text), 1)

RECURSIVE MapKeysInOrder(_, _)
\* the keys of the object built by map[p.prefix] = p.iri, in Object.entries
\* order (first insertion of each key)
MapKeysInOrder(prefixes, i) ==
    IF i > Len(prefixes) THEN <<>>
    ELSE LET rest == MapKeysInOrder(prefixes, i + 1)
             p == prefixes[i].prefix
         IN  <<p>> \o SelectSeq(rest, LAMBDA q : q # p)

\* the value of key p: the iri of its last assignment
MapValue(prefixes, p) ==
    LET last == CHOOSE i \in 1..Len(prefixes) :
                  /\ prefixes[i].prefix = p
                  /\ \A j \in (i + 1)..Len(prefixes) : prefixes[j].prefix # p
    IN  prefixes[last].iri

\* collectNamespaceMap(text, prefixes) as the sequence of its [prefix, base] entries
collectNamespaceMap(prefixes) ==
    LET keys == MapKeysInOrder(prefixes, 1)
    IN  [i \in 1..Len(keys) |-> <<keys[i], MapValue(prefixes, keys[i])>>]

\* the entry {label, range} pushed for a label found at offset idx of text
EntryAtOffset(text, label, idx) ==
    [label |-> label, range |-> RangeAtOffset(text, idx, Len(label))]

RECURSIVE SubjectViaPrefixes(_, _, _, _)
\* collectSubjectEntries: the loop over Object.entries(nsMap) that looks for
\* the prefixed form of a subject whose full IRI is not in the text
SubjectViaPrefixes(text, subj, nsMap, i) ==
    IF i > Len(nsMap) THEN <<>>
    ELSE LET base == nsMap[i][2]
             pref == nsMap[i][1] \o ":" \o Slice(subj, Len(base), Len(subj))
             idx == IndexOf(text, pref)
         IN  IF StartsWithAt(subj, base, 0) /\ idx >= 0
             THEN <<EntryAtOffset(text, pref, idx)>>
             ELSE SubjectViaPrefixes(text, subj, nsMap, i + 1)

\* one turn of the loop over the quads (lines 214-245); acc is [seen, detailed]
SubjectOfQuad(acc, text, nsMap, subj) ==
    IF subj \in acc.seen THEN acc
    ELSE [seen |-> acc.seen \cup {subj},
          detailed |-> acc.detailed \o
              (IF IndexOf(text, subj) < 0 THEN SubjectViaPrefixes(text, subj, nsMap, 1)
               ELSE <<EntryAtOffset(text, subj, IndexOf(text, subj))>>)]

RECURSIVE SubjectsOfQuads(_, _, _, _, _)
\* collectSubjectEntries, try branch: the loop over the quads; the result is
\* [seen, detailed]
SubjectsOfQuads(text, nsMap, subjects, i, acc) ==
    IF i > Len(subjects) THEN acc
    ELSE SubjectsOfQuads(text, nsMap, subjects, i + 1,
                         SubjectOfQuad(acc, text, nsMap, subjects[i]))

\* the lines both passes skip: empty, or starting with @ or #
LineIsSkipped(trimmed) == trimmed = "" \/ CharAt(trimmed, 0) \in {"@", "#"}

\* trimmed.match(/^([A-Za-z][\w-]*:[\w-]+)/): the match, "" when there is none
LeadingPrefixedName(trimmed) ==
    IF PrefixedNameEndAt(trimmed, 0) < 0 THEN ""
    ELSE Slice(trimmed, 0, PrefixedNameEndAt(trimmed, 0))

\* lines 253-263: a matched label not yet seen is recorded
AddSubject(acc, line, idx, label) ==
    IF label = "" \/ label \in acc.seen THEN acc
    ELSE [seen |-> acc.seen \cup {label},
          detailed |-> acc.detailed \o <<LabelEntryInLine(line, idx, label)>>]

\* one turn of the line pass (lines 248-265)
SubjectOfLine(acc, line, idx, trimmed) ==
    IF LineIsSkipped(trimmed) THEN acc
    ELSE AddSubject(acc, line, idx, LeadingPrefixedName(trimmed))

RECURSIVE SubjectsOfLines(_, _, _)
\* collectSubjectEntries, try branch: the line pass /^([A-Za-z][\w-]*:[\w-]+)/
\* that skips the labels already in seen
SubjectsOfLines(lines, i, acc) ==
    IF i > Len(lines) THEN acc
    ELSE SubjectsOfLines(lines, i + 1, SubjectOfLine(acc, lines[i], i - 1, Trim(lines[i])))

\* one turn of the catch branch (lines 268-284): /^([<A-Za-z][^\s>]*)/
HeuristicSubject(line, idx, trimmed) ==
    IF LineIsSkipped(trimmed) \/ ~(CharAt(trimmed, 0) = "<" \/ IsAlpha(CharAt(trimmed, 0)))
    THEN <<>>
    ELSE <<LabelEntryInLine(line, idx, Slice(trimmed, 0, NonSpaceRunEnd(trimmed, 1)))>>

RECURSIVE SubjectsHeuristic(_, _)
\* collectSubjectEntries, catch branch: /^([<A-Za-z][^\s>]*)/ on every line
SubjectsHeuristic(lines, i) ==
    IF i > Len(lines) THEN <<>>
    ELSE HeuristicSubject(lines[i], i - 1, Trim(lines[i])) \o SubjectsHeuristic(lines, i + 1)

collectSubjectEntries(text, nsMap) ==
    IF N3Parse(text).ok
    THEN SubjectsOfLines(SplitLines(text), 1,
             SubjectsOfQuads(text, nsMap, N3Parse(text).subjects, 1,
                             [seen |-> {}, detailed |-> <<>>])).detailed
    ELSE SubjectsHeuristic(SplitLines(text), 1)

RECURSIVE SymbolsOfLine(_, _, _)
\* line.matchAll(/([A-Za-z][\w-]*:[\w-]+)/g) from position i of line number idx
SymbolsOfLine(line, idx, i) ==
    IF i >= Len(line) THEN <<>>
    ELSE LET e == PrefixedNameEndAt(line, i)
         IN  IF e < 0 THEN SymbolsOfLine(line, idx, i + 1)
             ELSE <<[label |-> Slice(line, i, e), range |-> Range(idx, i, e)]>>
                  \o SymbolsOfLine(line, idx, e)

RECURSIVE SymbolsOfLines(_, _)
SymbolsOfLines(lines, i) ==
    IF i > Len(lines) THEN <<>>
    ELSE SymbolsOfLine(lines[i], i - 1, 0) \o SymbolsOfLines(lines, i + 1)

collectSymbolEntries(text) == SymbolsOfLines(SplitLines(text), 1)

\* the DocCache record of lines 61-66
DocCacheRecord(prefixes, subjects, symbols, nsMap) ==
    [prefixes |-> [i \in 1..Len(prefixes) |->
                     [label |-> prefixes[i].prefix, range |-> prefixes[i].range]],
     subjects |-> subjects,
     symbols |-> symbols,
     map |-> nsMap]

\* lines 57-66, given the namespace entries of line 56
ExtractWithPrefixes(text, prefixes) ==
    DocCacheRecord(prefixes,
                   collectSubjectEntries(text, collectNamespaceMap(prefixes)),
                   collectSymbolEntries(text),
                   collectNamespaceMap(prefixes))

\* what reindexDocument derives from a text (lines 56-66): the DocCache record
ExtractContribution(text) == ExtractWithPrefixes(text, collectNamespaceEntries(text))

\* the extraction is a pure function of the text: its value on every
\* modelled text, computed once
ContributionTable == [text \in IndexedTexts |-> ExtractContribution(text)]

Contribution(text) == ContributionTable[text]

(***************************************************************************)
(* The indexes and maps of the program are plain objects created by {},    *)
(* so a key that is not an own property is looked up on Object.prototype.  *)
(***************************************************************************)
ProtoKeys == {"constructor", "hasOwnProperty", "isPrototypeOf", "propertyIsEnumerable",
              "toLocaleString", "toString", "valueOf"}

(***************************************************************************)
(* src/unnamed/part_001: the part of basicDiagnostics that decides which   *)
(* vocabularies the diagnostics pass asks ensureVocabLoaded for            *)
(***************************************************************************)
RECURSIVE StringBodyEnd(_, _, _, _)
\* (?:[^q\\]|\\.)* from position i, then the closing delimiter: the end
\* (exclusive) of the delimiter, or -1.  The body cannot contain the quote
\* character q, so lazy and greedy repetition end at the same place.
StringBodyEnd(s, i, q, closing) ==
    IF i >= Len(s) THEN -1
    ELSE IF StartsWithAt(s, closing, i) THEN i + Len(closing)
    ELSE IF CharAt(s, i) = "\\"
         THEN IF i + 1 < Len(s) /\ CharAt(s, i + 1) # "\n"
              THEN StringBodyEnd(s, i + 2, q, closing) ELSE -1
    ELSE IF CharAt(s, i) = q THEN -1
    ELSE StringBodyEnd(s, i + 1, q, closing)

\* the end of a string literal that starts at i (the four alternatives of the
\* regular expression of line 313, in order), or -1
StringLiteralEnd(s, i) ==
    LET q == CharAt(s, i)
        triple == IF StartsWithAt(s, q \o q \o q, i)
                  THEN StringBodyEnd(s, i + 3, q, q \o q \o q) ELSE -1
    IN  IF q \notin {"\"", "'"} THEN -1
        ELSE IF triple >= 0 THEN triple
        ELSE StringBodyEnd(s, i + 1, q, q)

RECURSIVE StripStrings(_, _)
StripStrings(s, i) ==
    IF i >= Len(s) THEN ""
    ELSE LET e == StringLiteralEnd(s, i)
         IN  IF e >= 0 THEN StripStrings(s, e)
             ELSE CharAt(s, i) \o StripStrings(s, i + 1)

RECURSIVE StripIris(_, _)
\* .replace(/<[^>]*>/g, "")
StripIris(s, i) ==
    IF i >= Len(s) THEN ""
    ELSE LET g == IndexOfFrom(s, ">", i + 1)
         IN  IF CharAt(s, i) = "<" /\ g >= 0 THEN StripIris(s, g + 1)
             ELSE CharAt(s, i) \o StripIris(s, i + 1)

\* .replace(/#.*$/, "")
StripComment(s) ==
    LET h == IndexOf(s, "#")
    IN  IF h < 0 THEN s ELSE Slice(s, 0, h)

\* the sanitized line of lines 312-315
Sanitize(trimmed) == StripComment(StripIris(StripStrings(trimmed, 0), 0))

RECURSIVE PrefixUses(_, _)
\* the prefixes (group 1) of sanitized.matchAll(/([A-Za-z0-9_\-]*):([A-Za-z0-9_\-]*)/g),
\* in order
PrefixUses(s, i) ==
    IF i >= Len(s) THEN <<>>
    ELSE LET c == NameRunEnd(s, i)
         IN  IF CharAt(s, c) = ":"
             THEN <<Slice(s, i, c)>> \o PrefixUses(s, NameRunEnd(s, c + 1))
             ELSE PrefixUses(s, i + 1)

RECURSIVE PrefixUsesOfLines(_, _)
\* the prefix of every prefix:suffix use on the scanned lines (those that are
\* not empty and start with neither '@' nor '#')
PrefixUsesOfLines(lines, i) ==
    IF i > Len(lines) THEN <<>>
    ELSE LET trimmed == Trim(lines[i])
         IN  (IF trimmed = "" \/ CharAt(trimmed, 0) \in {"@", "#"} THEN <<>>
              ELSE PrefixUses(Sanitize(trimmed), 0))
             \o PrefixUsesOfLines(lines, i + 1)

\* the keys of defaultPrefixes (lines 26-35)
defaultPrefixes == {"rdf", "rdfs", "owl", "xsd", "sh", "skos", "dcterms", "foaf"}

normalizePrefix(pref) == IF Len(pref) > 0 THEN pref ELSE ":"

\* the truth value of prefixMap[key] for the map of buildPrefixMap(text, ...):
\* a plain object holding the defaults and the document's declarations
PrefixMapHas(text, key) ==
    LET declared == collectNamespaceEntries(text)
    IN  \/ key \in defaultPrefixes
        \/ \E i \in 1..Len(declared) : normalizePrefix(declared[i].prefix) = key
        \/ key \in ProtoKeys

(***************************************************************************)
(* The vocabulary dataset provider (@zazuko/rdf-vocabularies, external)    *)
(***************************************************************************)
\* the keys of the provider's `prefixes` object that the model uses
ZazukoPrefixes == {"rdf", "rdfs", "owl", "xsd", "skos", "sh", "dcterms", "foaf", "schema"}

\* the truth value of prefixes[key]: `prefixes` is a plain object too
ProviderKnows(key) == key \in ZazukoPrefixes \/ key \in ProtoKeys

\* the local names of the terms the provider's dataset defines for a key
ProviderTerms(key) == IF key = "rdf" THEN <<"Property", "type">> ELSE <<"Class">>

\* the prefixes for which one diagnostics pass over text reaches the branch
\* of lines 369-391, in order of use
VocabularyUses(text) ==
    SelectSeq(PrefixUsesOfLines(SplitLines(text), 1),
              LAMBDA pref : PrefixMapHas(text, normalizePrefix(pref)) /\ ProviderKnows(pref))

VocabularyUsesTable == [text \in IndexedTexts |-> VocabularyUses(text)]

(***************************************************************************)
(* src/unnamed/part_001: basicDiagnostics                                  *)
(***************************************************************************)
\* countChars(text, char) (lines 431-433)
countChars(text, char) == Cardinality({i \in 1..Len(text) : SubSeq(text, i, i) = char})

\* /[.;,\]\)]\s*$/.test(sanitized)
endsWithTerminator(sanitized) ==
    CharAt(sanitized, SkipSpaceBack(sanitized, Len(sanitized)) - 1) \in {".", ";", ",", "]", ")"}

\* /\s/.test(sanitized)
hasWhitespace(sanitized) == \E i \in 0..(Len(sanitized) - 1) : IsSpace(CharAt(sanitized, i))

\* Math.max(0, n)
AtLeastZero(n) == IF n < 0 THEN 0 ELSE n

RECURSIVE matchAllUses(_, _)
\* sanitized.matchAll(/([A-Za-z0-9_\-]*):([A-Za-z0-9_\-]*)/g): groups 1 and 2
\* and the matched text of every match, in order
matchAllUses(s, i) ==
    IF i >= Len(s) THEN <<>>
    ELSE LET c == NameRunEnd(s, i)
         IN  IF CharAt(s, c) = ":"
             THEN <<[pref |-> Slice(s, i, c), suffix |-> Slice(s, c + 1, NameRunEnd(s, c + 1)),
                     text |-> Slice(s, i, NameRunEnd(s, c + 1))]>>
                  \o matchAllUses(s, NameRunEnd(s, c + 1))
             ELSE matchAllUses(s, i + 1)

\* displayPrefix(pref) (lines 439-441)
displayPrefix(pref) == IF Len(pref) > 0 THEN pref ELSE ":"

\* UseFindings with the default prefixes counting as declared
UseFindingsDefaultsDeclared(text, declared, line, idx, use) ==
    (IF normalizePrefix(use.pref) \notin declared \cup defaultPrefixes
     THEN <<[kind |-> "undeclared", prefix |-> displayPrefix(use.pref), token |-> use.text,
             range |-> RangeInLine(idx, IndexOf(line, use.text), Len(use.text))]>>
     ELSE <<>>)
    \o (IF PrefixMapHas(text, normalizePrefix(use.pref)) /\ ProviderKnows(use.pref)
        THEN <<[kind |-> "unknownTerm", prefix |-> use.pref, suffix |-> use.suffix,
                token |-> use.text,
                range |-> RangeInLine(idx, IndexOf(line, use.text), Len(use.text))]>>
        ELSE <<>>)

\* lines 344-391 for one match of line idx: the finding of an undeclared
\* prefix, then the check of the suffix, which the pass decides by the
\* valid-terms cache
UseFindings(text, declared, line, idx, use) ==
    (IF normalizePrefix(use.pref) \notin declared
     THEN <<[kind |-> "undeclared", prefix |-> displayPrefix(use.pref), token |-> use.text,
             range |-> RangeInLine(idx, IndexOf(line, use.text), Len(use.text))]>>
     ELSE <<>>)
    \o (IF PrefixMapHas(text, normalizePrefix(use.pref)) /\ ProviderKnows(use.pref)
        THEN <<[kind |-> "unknownTerm", prefix |-> use.pref, suffix |-> use.suffix,
                token |-> use.text,
                range |-> RangeInLine(idx, IndexOf(line, use.text), Len(use.text))]>>
        ELSE <<>>)

RECURSIVE UsesFindings(_, _, _, _, _, _)
\* the loop of lines 344-392 over the matches of one line
UsesFindings(text, declared, line, idx, uses, i) ==
    IF i > Len(uses) THEN <<>>
    ELSE UseFindings(text, declared, line, idx, uses[i])
         \o UsesFindings(text, declared, line, idx, uses, i + 1)

\* the finding of lines 329-339 for a scanned line
TerminatorFinding(line, idx, sanitized, depthBefore, depthAfter) ==
    IF /\ depthBefore = 0
       /\ depthAfter = 0
       /\ ~endsWithTerminator(sanitized)
       /\ hasWhitespace(sanitized)
    THEN <<[kind |-> "terminator", range |-> Range(idx, 0, Len(line))]>>
    ELSE <<>>

\* depthAfter of line 325: the depth before the line and the four counts of
\* the sanitized line under one Math.max
depthAfter(depthBefore, sanitized) ==
    AtLeastZero(depthBefore + countChars(sanitized, "[") - countChars(sanitized, "]")
                + countChars(sanitized, "(") - countChars(sanitized, ")"))

\* the update of bracketDepth (line 396) and of parenDepth (line 397) by the
\* counts of the opening and the closing character in the sanitized line
updatedDepth(depth, sanitized, open, close) ==
    AtLeastZero(depth + countChars(sanitized, open) - countChars(sanitized, close))

RECURSIVE ScanLines(_, _, _, _, _, _)
\* lines.forEach of lines 305-398, at line i with the nesting depths so far
ScanLines(text, declared, lines, i, bracketDepth, parenDepth) ==
    IF i > Len(lines) THEN <<>>
    ELSE IF Trim(lines[i]) = "" \/ CharAt(Trim(lines[i]), 0) \in {"@", "#"}
    THEN ScanLines(text, declared, lines, i + 1, bracketDepth, parenDepth)
    ELSE TerminatorFinding(lines[i], i - 1, Sanitize(Trim(lines[i])),
                           bracketDepth + parenDepth,
                           depthAfter(bracketDepth + parenDepth, Sanitize(Trim(lines[i]))))
         \o UsesFindings(text, declared, lines[i], i - 1,
                         matchAllUses(Sanitize(Trim(lines[i])), 0), 1)
         \o ScanLines(text, declared, lines, i + 1,
                      updatedDepth(bracketDepth, Sanitize(Trim(lines[i])), "[", "]"),
                      updatedDepth(parenDepth, Sanitize(Trim(lines[i])), "(", ")"))

RECURSIVE ScanTurns(_, _, _, _)
\* the locals of lines.forEach (lines 305-398) at the end of every turn that
\* passes the test of line 307, from line i with the nesting depths so far
ScanTurns(lines, i, bracketDepth, parenDepth) ==
    IF i > Len(lines) THEN <<>>
    ELSE IF Trim(lines[i]) = "" \/ CharAt(Trim(lines[i]), 0) \in {"@", "#"}
    THEN ScanTurns(lines, i + 1, bracketDepth, parenDepth)
    ELSE <<[idx |-> i - 1,
            depthBefore |-> bracketDepth + parenDepth,
            depthAfter |-> depthAfter(bracketDepth + parenDepth, Sanitize(Trim(lines[i]))),
            bracketDepth |-> updatedDepth(bracketDepth, Sanitize(Trim(lines[i])), "[", "]"),
            parenDepth |-> updatedDepth(parenDepth, Sanitize(Trim(lines[i])), "(", ")")]>>
         \o ScanTurns(lines, i + 1,
                      updatedDepth(bracketDepth, Sanitize(Trim(lines[i])), "[", "]"),
                      updatedDepth(parenDepth, Sanitize(Trim(lines[i])), "(", ")"))

\* the findings of one of the loops over namespaceEntries (lines 401-412 and
\* 415-426): one for every entry the loop reports
EntryFindings(entries, kind, reported) ==
    [k \in 1..Len(reported) |->
        [kind |-> kind, prefix |-> displayPrefix(entries[reported[k]].prefix),
         range |-> entries[reported[k]].range]]

\* seenPrefixDecl[normalized] > 1 at entry i (lines 402-404): the counter is
\* a property of a plain object, so for a name that every object inherits
\* the `+ 1` appends to a string and the comparison is false
DeclaredBefore(entries, i) ==
    /\ normalizePrefix(entries[i].prefix) \notin ProtoKeys
    /\ \E j \in 1..(i - 1) :
          normalizePrefix(entries[j].prefix) = normalizePrefix(entries[i].prefix)

\* (prefixUsage[normalized] || 0) === 0 at entry i (line 417), uses being the
\* prefixes counted at line 356; an inherited member is not 0
NeverUsed(entries, uses, i) ==
    /\ normalizePrefix(entries[i].prefix) \notin ProtoKeys
    /\ \A j \in 1..Len(uses) : normalizePrefix(uses[j]) # normalizePrefix(entries[i].prefix)

\* what basicDiagnostics(document, text) finds apart from the valid-terms
\* cache: the findings in the order they are pushed, with a suffix check
\* standing where the pass consults the cache
LintOf(text, entries) ==
    ScanLines(text, {normalizePrefix(entries[i].prefix) : i \in 1..Len(entries)},
              SplitLines(text), 1, 0, 0)
    \o EntryFindings(entries, "duplicate",
                     SelectSeq([i \in 1..Len(entries) |-> i],
                               LAMBDA i : DeclaredBefore(entries, i)))
    \o EntryFindings(entries, "unused",
                     SelectSeq([i \in 1..Len(entries) |-> i],
                               LAMBDA i : NeverUsed(entries, PrefixUsesOfLines(SplitLines(text), 1), i)))

LintTable == [text \in IndexedTexts |-> LintOf(text, collectNamespaceEntries(text))]

\* basicDiagnostics reporting a suffix also while the vocabulary of its
\* prefix is not cached
basicDiagnosticsWithoutCache(text, cache) ==
    SelectSeq(LintTable[text],
              LAMBDA f : f.kind = "unknownTerm"
                         => (f.prefix \notin DOMAIN cache \/ f.suffix \notin cache[f.prefix]))

\* basicDiagnostics(document, text) with the valid-terms cache as it is: a
\* suffix is reported when the vocabulary of its prefix is cached and does
\* not hold it (lines 375-387)
basicDiagnostics(text, cache) ==
    SelectSeq(LintTable[text],
              LAMBDA f : f.kind = "unknownTerm"
                         => (f.prefix \in DOMAIN cache /\ f.suffix \notin cache[f.prefix]))

\* the diagnostic of the outer catch (lines 203-214)
InternalError == [kind |-> "internal", range |-> Range(0, 0, 1)]

(***************************************************************************)
(* The state                                                               *)
(***************************************************************************)
VARIABLES
    prefixIndex,      \* Indexer.prefixIndex: label -> list of locations
    subjectIndex,     \* Indexer.subjectIndex
    symbolIndex,      \* Indexer.symbolIndex
    docCache,         \* Indexer.docCache: uri -> contribution record
    workspaceIndexed, \* Indexer.workspaceIndexed
    documents,        \* the open documents: uri -> text
    disk,             \* the files under the workspace root: uri -> text
    cachedVocabs,     \* CompletionEngine.cachedVocabs: key -> item labels
    loadingPromises,  \* CompletionEngine.loadingPromises: the keys with a pending load
    fetching,         \* provider calls of the engine that have not settled: key -> count
    awaiting,         \* the build calls suspended on a vocabulary load
    validTermsCache,  \* TurtleLanguageServer.validTermsCache: key -> local names
    loadingVocabs,    \* TurtleLanguageServer.loadingVocabs
    diagFetching,     \* provider calls of ensureVocabLoaded that have not settled
    lastCall,         \* the handler that ran last, with its arguments and what it sent
    response          \* what that handler returned

indexVars == <<prefixIndex, subjectIndex, symbolIndex, docCache>>
engineVars == <<cachedVocabs, loadingPromises, fetching, awaiting>>
diagVars == <<validTermsCache, loadingVocabs, diagFetching>>
vars == <<prefixIndex, subjectIndex, symbolIndex, docCache, workspaceIndexed,
          documents, disk, cachedVocabs, loadingPromises, fetching, awaiting,
          validTermsCache, loadingVocabs, diagFetching, lastCall, response>>

UriA == "file:///a.ttl"
UriB == "file:///b.ttl"
UriC == "file:///c.ttl"
Uris == {UriA, UriB, UriC}

(***************************************************************************)
(* src/src/indexer.ts: reindexDocument and removeFromIndexes                *)
(***************************************************************************)
\* the truth value of index[label] in `if (!index[label])` / `if (index[label])`
Truthy(index, label) == label \in DOMAIN index \/ label \in ProtoKeys

\* delete index[label]
DeleteKey(index, label) == [k \in DOMAIN index \ {label} |-> index[k]]

\* index[label] = value
SetKey(index, label, value) ==
    [k \in DOMAIN index \cup {label} |-> IF k = label THEN value ELSE index[k]]

Location(uri, range) == [uri |-> uri, range |-> range]

\* one iteration of an insertion loop of reindexDocument (lines 68-79):
\* index[label].push is a TypeError when index[label] is an inherited member
InsertStep(index, uri, entry) ==
    IF ~Truthy(index, entry.label)
    THEN [index |-> SetKey(index, entry.label, <<Location(uri, entry.range)>>), threw |-> FALSE]
    ELSE IF entry.label \in DOMAIN index
    THEN [index |-> SetKey(index, entry.label,
                           Append(index[entry.label], Location(uri, entry.range))),
          threw |-> FALSE]
    ELSE [index |-> index, threw |-> TRUE]

RECURSIVE InsertEntries(_, _, _, _)
\* for (const e of entries) { ... push ... }, stopping at the first throw
InsertEntries(index, uri, entries, i) ==
    IF i > Len(entries) THEN [index |-> index, threw |-> FALSE]
    ELSE LET r == InsertStep(index, uri, entries[i])
         IN  IF r.threw THEN r ELSE InsertEntries(r.index, uri, entries, i + 1)

\* a removal loop without the delete of lines 88, 94 and 100: the filtered
\* list stays under its label
FilterStepKeepingKey(index, uri, entry) ==
    IF ~Truthy(index, entry.label) THEN [index |-> index, threw |-> FALSE]
    ELSE IF entry.label \in DOMAIN index
    THEN [index |-> SetKey(index, entry.label,
                           SelectSeq(index[entry.label], LAMBDA loc : loc.uri # uri)),
          threw |-> FALSE]
    ELSE [index |-> index, threw |-> TRUE]

\* one iteration of a removal loop of removeFromIndexes (lines 85-102):
\* index[label].filter is a TypeError when index[label] is an inherited member
FilterStep(index, uri, entry) ==
    IF ~Truthy(index, entry.label) THEN [index |-> index, threw |-> FALSE]
    ELSE IF entry.label \in DOMAIN index
    THEN LET kept == SelectSeq(index[entry.label], LAMBDA loc : loc.uri # uri)
         IN  [index |-> IF Len(kept) = 0 THEN DeleteKey(index, entry.label)
                        ELSE SetKey(index, entry.label, kept),
              threw |-> FALSE]
    ELSE [index |-> index, threw |-> TRUE]

RECURSIVE FilterEntries(_, _, _, _)
FilterEntries(index, uri, entries, i) ==
    IF i > Len(entries) THEN [index |-> index, threw |-> FALSE]
    ELSE LET r == FilterStep(index, uri, entries[i])
         IN  IF r.threw THEN r ELSE FilterEntries(r.index, uri, entries, i + 1)

\* the Indexer's fields as one value
IndexerState == [prefixIndex |-> prefixIndex, subjectIndex |-> subjectIndex,
                 symbolIndex |-> symbolIndex, docCache |-> docCache, threw |-> FALSE]

\* the result r of a loop over one index becomes field of the state st
StoreIndex(st, field, r) == [st EXCEPT ![field] = r.index, !.threw = r.threw]

\* one removal loop of removeFromIndexes (lines 85-90, 91-96, 97-102); a
\* loop after an exception does not run
FilterFrom(st, field, uri, entries) ==
    IF st.threw THEN st ELSE StoreIndex(st, field, FilterEntries(st[field], uri, entries, 1))

\* delete this.docCache[uri] (line 104)
ForgetDocument(st, uri) ==
    IF st.threw THEN st ELSE [st EXCEPT !.docCache = DeleteKey(@, uri)]

\* lines 85-104 for the cached contribution of uri
RemoveCached(st, uri, cached) ==
    ForgetDocument(
        FilterFrom(
            FilterFrom(
                FilterFrom(st, "prefixIndex", uri, cached.prefixes),
                "subjectIndex", uri, cached.subjects),
            "symbolIndex", uri, cached.symbols),
        uri)

\* removeFromIndexes(uri) applied to the Indexer state st; threw tells that
\* the call ended with an exception, the fields being as the exception left them
removeFromIndexes(st, uri) ==
    IF uri \notin DOMAIN st.docCache THEN [st EXCEPT !.threw = FALSE]
    ELSE RemoveCached([st EXCEPT !.threw = FALSE], uri, st.docCache[uri])

\* one insertion loop of reindexDocument (lines 68-71, 72-75, 76-79); a loop
\* after an exception does not run
InsertInto(st, field, uri, entries) ==
    IF st.threw THEN st ELSE StoreIndex(st, field, InsertEntries(st[field], uri, entries, 1))

\* lines 61-79 after removeFromIndexes has left the state removed: the
\* contribution record is stored, then the three loops run
InstallContribution(removed, uri, contribution) ==
    IF removed.threw THEN removed
    ELSE InsertInto(
             InsertInto(
                 InsertInto([removed EXCEPT !.docCache = SetKey(@, uri, contribution)],
                            "prefixIndex", uri, contribution.prefixes),
                 "subjectIndex", uri, contribution.subjects),
             "symbolIndex", uri, contribution.symbols)

\* reindexDocument(uri, text) applied to the Indexer state st
reindexDocument(st, uri, text) ==
    InstallContribution(removeFromIndexes(st, uri), uri, Contribution(text))

NoResponse == [kind |-> "none"]

\* the Indexer's fields become those of st and the handler ends, with an
\* exception when st.threw
InstallOutcome(st) ==
    /\ prefixIndex' = st.prefixIndex
    /\ subjectIndex' = st.subjectIndex
    /\ symbolIndex' = st.symbolIndex
    /\ docCache' = st.docCache
    /\ response' = [kind |-> IF st.threw THEN "threw" ELSE "returned"]
EmptyMap == [k \in {} |-> <<>>]

(***************************************************************************)
(* src/unnamed/part_002: currentWordRange, currentWord, rangeMatchesWord   *)
(***************************************************************************)
\* isWord: /[\w:]/
isWord(ch) == IsWordChar(ch) \/ ch = ":"

RECURSIVE WordStart(_, _)
WordStart(text, start) ==
    IF start > 0 /\ isWord(CharAt(text, start - 1)) THEN WordStart(text, start - 1) ELSE start

RECURSIVE WordEnd(_, _)
WordEnd(text, end) ==
    IF end < Len(text) /\ isWord(CharAt(text, end)) THEN WordEnd(text, end + 1) ELSE end

currentWordRange(text, position) ==
    LET safeOffset == Clamp(OffsetAt(text, position), 0, Len(text))
    IN  [start |-> PositionAt(text, WordStart(text, safeOffset)),
         end |-> PositionAt(text, WordEnd(text, safeOffset))]

\* currentWord(doc, position); "" stands for null (text || null)
currentWord(text, position) == GetText(text, currentWordRange(text, position))

\* content.split(/\r?\n/) for every modelled text, computed once
LinesTable == [text \in AllTexts |-> SplitLines(text)]

\* readFileSafe(fsPath) on the disk dsk: the content, or readable = FALSE for null
readFileSafe(dsk, uri) ==
    IF uri \in DOMAIN dsk THEN [readable |-> TRUE, content |-> dsk[uri]]
    ELSE [readable |-> FALSE]

\* rangeMatchesWord that rejects a location whose text it cannot read
rangeMatchesWordOrRejects(open, dsk, uri, range, word) ==
    IF uri \in DOMAIN open THEN GetText(open[uri], range) = word
    ELSE IF StartsWithAt(uri, "file://", 0)
    THEN LET file == readFileSafe(dsk, uri)
         IN  IF ~file.readable \/ file.content = "" THEN FALSE
             ELSE LET lines == LinesTable[file.content]
                      startLine == IF range.start.line + 1 \in 1..Len(lines)
                                   THEN lines[range.start.line + 1] ELSE ""
                      snippet == Slice(startLine, range.start.character, range.end.character)
                  IN  snippet = word
    ELSE FALSE

\* rangeMatchesWord(uri, range, word, doc) with doc = open[uri] when uri is open
rangeMatchesWord(open, dsk, uri, range, word) ==
    IF uri \in DOMAIN open THEN GetText(open[uri], range) = word
    ELSE IF StartsWithAt(uri, "file://", 0)
    THEN LET file == readFileSafe(dsk, uri)
         IN  IF ~file.readable \/ file.content = "" THEN TRUE
             ELSE LET lines == LinesTable[file.content]
                      startLine == IF range.start.line + 1 \in 1..Len(lines)
                                   THEN lines[range.start.line + 1] ELSE ""
                      snippet == Slice(startLine, range.start.character, range.end.character)
                  IN  snippet = word
    ELSE TRUE

(***************************************************************************)
(* src/src/indexer.ts: lookups                                             *)
(***************************************************************************)
\* index[word] || []: the list under an own key, the empty list for an
\* absent key, and for a key inherited from Object.prototype a value that is
\* not a list (array = FALSE)
Lookup(index, word) ==
    IF word \in DOMAIN index THEN [array |-> TRUE, items |-> index[word]]
    ELSE IF word \in ProtoKeys THEN [array |-> FALSE, items |-> <<>>]
    ELSE [array |-> TRUE, items |-> <<>>]

getPrefixes(word) == Lookup(prefixIndex, word)
getSubjects(word) == Lookup(subjectIndex, word)
getSymbols(word) == Lookup(symbolIndex, word)

(***************************************************************************)
(* src/unnamed/part_001: NavigationEngine                                  *)
(***************************************************************************)
endsWithColon(word) == Len(word) > 0 /\ CharAt(word, Len(word) - 1) = ":"
\* word.replace(/:$/, "")
trimColon(word) == IF endsWithColon(word) THEN Slice(word, 0, Len(word) - 1) ELSE word

RECURSIVE SpreadAll(_, _)
\* results.push(...list) for each looked-up list in turn; spreading a value
\* that is not iterable throws
SpreadAll(lists, i) ==
    IF i > Len(lists) THEN [threw |-> FALSE, items |-> <<>>]
    ELSE LET rest == SpreadAll(lists, i + 1)
         IN  IF ~lists[i].array \/ rest.threw THEN [threw |-> TRUE, items |-> <<>>]
             ELSE [threw |-> FALSE, items |-> lists[i].items \o rest.items]

LocationsResponse(r) ==
    IF r.threw THEN [kind |-> "threw"] ELSE [kind |-> "locations", locations |-> r.items]

\* the lookups of definition(params), in the order of lines 466-472
definitionLookups(word) ==
    <<getPrefixes(word)>>
    \o (IF endsWithColon(word) THEN <<getPrefixes(trimColon(word))>> ELSE <<>>)
    \o <<getSubjects(word), getSymbols(word)>>

\* the lookups of references(params) and rename(params), lines 483-489 and 510-516
referencesLookups(word) ==
    <<getSubjects(word), getPrefixes(word)>>
    \o (IF endsWithColon(word) THEN <<getPrefixes(trimColon(word))>> ELSE <<>>)
    \o <<getSymbols(word)>>

NoLocations == [kind |-> "locations", locations |-> <<>>]

\* definition(params) once the word under the cursor is known
definitionOf(word) ==
    IF word = "" THEN NoLocations
    ELSE LocationsResponse(SpreadAll(definitionLookups(word), 1))

definition(uri, position) ==
    IF uri \notin DOMAIN documents THEN NoLocations
    ELSE definitionOf(currentWord(documents[uri], position))

\* references(params) once the word under the cursor is known
referencesOf(word) ==
    IF word = "" THEN NoLocations
    ELSE LocationsResponse(SpreadAll(referencesLookups(word), 1))

references(uri, position) ==
    IF uri \notin DOMAIN documents THEN NoLocations
    ELSE referencesOf(currentWord(documents[uri], position))

\* the candidates addEdits keeps (line 504)
KeepMatching(items, word) ==
    SelectSeq(items, LAMBDA loc : rangeMatchesWord(documents, disk, loc.uri, loc.range, word))

\* the edits pushed at line 506
EditsOf(kept, newName) ==
    [i \in 1..Len(kept) |-> [uri |-> kept[i].uri, range |-> kept[i].range, newText |-> newName]]

PlanOf(candidates, word, newName) ==
    [threw |-> candidates.threw, edits |-> EditsOf(KeepMatching(candidates.items, word), newName)]

\* the edits addEdits accepts from the candidate lists, in candidate order
validatedEdits(word, newName) == PlanOf(SpreadAll(referencesLookups(word), 1), word, newName)

\* the edits of document u, in order
EditsIn(edits, u) ==
    [i \in 1..Len(SelectSeq(edits, LAMBDA e : e.uri = u)) |->
        [range |-> SelectSeq(edits, LAMBDA e : e.uri = u)[i].range,
         newText |-> SelectSeq(edits, LAMBDA e : e.uri = u)[i].newText]]

\* lines 518-519: null without any change, else the edits grouped by document
GroupEdits(word, edits, touched) ==
    IF touched = {} THEN [kind |-> "null"]
    ELSE [kind |-> "edit", word |-> word, changes |-> [u \in touched |-> EditsIn(edits, u)]]

RenamePlan(word, plan) ==
    IF plan.threw THEN [kind |-> "threw"]
    ELSE GroupEdits(word, plan.edits, {plan.edits[i].uri : i \in 1..Len(plan.edits)})

\* rename(params) once the word under the cursor is known
renameOf(word, newName) ==
    IF word = "" THEN [kind |-> "null"] ELSE RenamePlan(word, validatedEdits(word, newName))

\* rename(params): null, or the edits grouped by document
rename(uri, position, newName) ==
    IF uri \notin DOMAIN documents THEN [kind |-> "null"]
    ELSE renameOf(currentWord(documents[uri], position), newName)

(***************************************************************************)
(* src/src/completion.ts (lines 1-333): vocabulary loading                 *)
(***************************************************************************)
\* how many keys of COMMON_VOCABS (line 16) the model preloads
MaxCommon == 2

CommonVocabsInSource == <<"rdf", "rdfs", "owl", "xsd", "skos", "sh", "dcterms", "foaf", "schema">>

COMMON_VOCABS == SubSeq(CommonVocabsInSource, 1, MaxCommon)

\* how many build calls may be suspended at once
MaxAwaiting == 2

Count(counts, key) == IF key \in DOMAIN counts THEN counts[key] ELSE 0

Increment(counts, key) == SetKey(counts, key, Count(counts, key) + 1)

Decrement(counts, key) ==
    IF Count(counts, key) <= 1 THEN DeleteKey(counts, key)
    ELSE SetKey(counts, key, counts[key] - 1)

\* the engine's fields as one value
EngineState == [cachedVocabs |-> cachedVocabs, loadingPromises |-> loadingPromises,
                fetching |-> fetching]

\* loadVocabularyIntoCache without the check of line 85: a caller that finds
\* the key loading starts a load of its own
loadVocabularyIntoCacheUnshared(eng, prefix) ==
    IF prefix \in DOMAIN eng.cachedVocabs THEN eng
    ELSE IF ~ProviderKnows(prefix) THEN eng
    ELSE [eng EXCEPT !.loadingPromises = @ \cup {prefix},
                     !.fetching = Increment(@, prefix)]

\* loadVocabularyIntoCache(prefix) up to the point where it returns its
\* promise.  For a key the provider does not know the load settles without a
\* fetch, and the promise is registered and removed again before any other
\* handler runs.
loadVocabularyIntoCache(eng, prefix) ==
    IF prefix \in DOMAIN eng.cachedVocabs THEN eng
    ELSE IF prefix \in eng.loadingPromises THEN eng
    ELSE IF ~ProviderKnows(prefix) THEN eng
    ELSE [eng EXCEPT !.loadingPromises = @ \cup {prefix},
                     !.fetching = Increment(@, prefix)]

RECURSIVE preloadVocabularies(_, _)
\* COMMON_VOCABS.map(prefix => this.loadVocabularyIntoCache(prefix))
preloadVocabularies(eng, i) ==
    IF i > Len(COMMON_VOCABS) THEN eng
    ELSE preloadVocabularies(loadVocabularyIntoCache(eng, COMMON_VOCABS[i]), i + 1)

\* the engine right after `new CompletionEngine(indexer)`
NewEngine == preloadVocabularies(
    [cachedVocabs |-> EmptyMap, loadingPromises |-> {}, fetching |-> EmptyMap], 1)

\* the completion items built from the provider's dataset (lines 148-161)
VocabularyItems(prefix) ==
    LET terms == ProviderTerms(prefix)
    IN  [i \in 1..Len(terms) |-> prefix \o ":" \o terms[i]]

\* settleLoad with the cleanup of line 170 run only after a success
\* (then instead of finally)
settleLoadCleanupOnSuccess(eng, prefix, outcome) ==
    [cachedVocabs |-> IF outcome = "dataset"
                      THEN SetKey(eng.cachedVocabs, prefix, VocabularyItems(prefix))
                      ELSE eng.cachedVocabs,
     loadingPromises |-> IF outcome = "error" THEN eng.loadingPromises
                         ELSE eng.loadingPromises \ {prefix},
     fetching |-> Decrement(eng.fetching, prefix)]

\* settleLoad with a failed load remembered: after an error the key is cached
\* with no items
settleLoadCachesFailure(eng, prefix, outcome) ==
    [cachedVocabs |-> IF outcome = "dataset"
                      THEN SetKey(eng.cachedVocabs, prefix, VocabularyItems(prefix))
                      ELSE IF outcome = "error"
                      THEN SetKey(eng.cachedVocabs, prefix, <<>>)
                      ELSE eng.cachedVocabs,
     loadingPromises |-> eng.loadingPromises \ {prefix},
     fetching |-> Decrement(eng.fetching, prefix)]

\* the continuation of a load after its fetch has settled, followed by the
\* finally callback of line 170; outcome is "dataset" when the provider
\* returned a dataset for the key, "nothing" when it returned none (line 101)
\* and "error" when the fetch failed (line 162)
settleLoad(eng, prefix, outcome) ==
    [cachedVocabs |-> IF outcome = "dataset"
                      THEN SetKey(eng.cachedVocabs, prefix, VocabularyItems(prefix))
                      ELSE eng.cachedVocabs,
     loadingPromises |-> eng.loadingPromises \ {prefix},
     fetching |-> Decrement(eng.fetching, prefix)]

InstallEngine(eng) ==
    /\ cachedVocabs' = eng.cachedVocabs
    /\ loadingPromises' = eng.loadingPromises
    /\ fetching' = eng.fetching

\* extractPrefix(token): /^([A-Za-z][\w-]*):/, "" when there is no match
extractPrefix(token) ==
    LET c == NameRunEnd(token, 1)
    IN  IF IsAlpha(CharAt(token, 0)) /\ CharAt(token, c) = ":" THEN Slice(token, 0, c) ELSE ""

\* lineText.match(/([A-Za-z][\w-]*):[\w-]*$/): the prefix of the leftmost match
PrefixBeforeCursor(lineText) ==
    LET starts == {i \in 0..(Len(lineText) - 1) :
                     /\ IsAlpha(CharAt(lineText, i))
                     /\ CharAt(lineText, NameRunEnd(lineText, i + 1)) = ":"
                     /\ NameRunEnd(lineText, NameRunEnd(lineText, i + 1) + 1) = Len(lineText)}
        first == CHOOSE i \in starts : \A j \in starts : i <= j
    IN  IF starts = {} THEN "" ELSE Slice(lineText, first, NameRunEnd(lineText, first + 1))

detectPrefixAtPosition(text, position, currentToken) ==
    LET direct == extractPrefix(currentToken)
        lineText == GetText(text, [start |-> Position(position.line, 0), end |-> position])
    IN  IF direct # "" THEN direct ELSE PrefixBeforeCursor(lineText)

\* collectGlobalSubjects without the test of line 47: every label of the
\* index, whatever the filter
collectGlobalSubjectsUnfiltered(prefixFilter) == DOMAIN subjectIndex

\* collectGlobalSubjects(prefixFilter): the labels it returns
collectGlobalSubjects(prefixFilter) ==
    {label \in DOMAIN subjectIndex :
        ~(prefixFilter # "" /\ extractPrefix(label) # "" /\ extractPrefix(label) # prefixFilter)}

RECURSIVE ScanPrefixes(_, _)
\* the matches of /(?:@prefix|PREFIX)\s+([\w-]+):/gi from position i, in order
ScanPrefixes(text, i) ==
    IF i >= Len(text) THEN <<>>
    ELSE LET j == IF ToLower(Slice(text, i, i + 7)) = "@prefix" THEN i + 7
                  ELSE IF ToLower(Slice(text, i, i + 6)) = "prefix" THEN i + 6
                  ELSE -1
             k == SkipSpace(text, j)
             c == NameRunEnd(text, k)
         IN  IF j >= 0 /\ k > j /\ c > k /\ CharAt(text, c) = ":"
             THEN <<Slice(text, k, c)>> \o ScanPrefixes(text, c + 1)
             ELSE ScanPrefixes(text, i + 1)

RECURSIVE Distinct(_)
\* Array.from(new Set(list))
Distinct(list) ==
    IF list = <<>> THEN <<>>
    ELSE <<Head(list)>> \o Distinct(SelectSeq(Tail(list), LAMBDA x : x # Head(list)))

scanForPrefixes(text) == Distinct(ScanPrefixes(text, 0))

ScanForPrefixesTable == [text \in Texts |-> scanForPrefixes(text)]

RECURSIVE preloadPrefixes(_, _, _)
\* the loop of preloadFromDocument (lines 49-56)
preloadPrefixes(eng, found, i) ==
    IF i > Len(found) THEN eng
    ELSE IF found[i] \notin DOMAIN eng.cachedVocabs /\ found[i] \notin eng.loadingPromises
    THEN preloadPrefixes(loadVocabularyIntoCache(eng, found[i]), found, i + 1)
    ELSE preloadPrefixes(eng, found, i + 1)

\* the sequence as a set
Elements(list) == {list[i] : i \in 1..Len(list)}

\* what build has computed when it reaches `await this.vocabFromPrefix(...)`
\* (lines 177-182): the prefix under the cursor and the subjects read from
\* the index
RequestWith(uri, current, currentPrefix) ==
    [uri |-> uri, text |-> documents[uri], current |-> current,
     currentPrefix |-> currentPrefix,
     globalSubjects |-> collectGlobalSubjects(currentPrefix)]

BuildRequest(uri, position) ==
    RequestWith(uri, currentWord(documents[uri], position),
                detectPrefixAtPosition(documents[uri], position,
                                       currentWord(documents[uri], position)))

\* the entries of defaultPrefixes (part_001, lines 26-35), in order
defaultPrefixEntries ==
    <<[prefix |-> "rdf", iri |-> "http://www.w3.org/1999/02/22-rdf-syntax-ns#"],
      [prefix |-> "rdfs", iri |-> "http://www.w3.org/2000/01/rdf-schema#"],
      [prefix |-> "owl", iri |-> "http://www.w3.org/2002/07/owl#"],
      [prefix |-> "xsd", iri |-> "http://www.w3.org/2001/XMLSchema#"],
      [prefix |-> "sh", iri |-> "http://www.w3.org/ns/shacl#"],
      [prefix |-> "skos", iri |-> "http://www.w3.org/2004/02/skos/core#"],
      [prefix |-> "dcterms", iri |-> "http://purl.org/dc/terms/"],
      [prefix |-> "foaf", iri |-> "http://xmlns.com/foaf/0.1/"]>>

\* buildPrefixMap(text, namespaces) as the sequence of its [prefix, base]
\* entries: the defaults, then the document's declarations assigned over them
buildPrefixMap(namespaces) ==
    collectNamespaceMap(defaultPrefixEntries \o
        [i \in 1..Len(namespaces) |->
            [prefix |-> normalizePrefix(namespaces[i].prefix), iri |-> namespaces[i].iri]])

RECURSIVE abbreviateWithPrefixes(_, _, _)
\* abbreviateWithPrefixes(value, map), the loop being at entry i of the map
abbreviateWithPrefixes(value, map, i) ==
    IF ~(StartsWithAt(value, "http://", 0) \/ StartsWithAt(value, "https://", 0)) THEN value
    ELSE IF i > Len(map) THEN value
    ELSE IF StartsWithAt(value, map[i][2], 0) /\ Len(value) > Len(map[i][2])
    THEN map[i][1] \o ":" \o Slice(value, Len(map[i][2]), Len(value))
    ELSE abbreviateWithPrefixes(value, map, i + 1)

\* collectSubjectSet(text): the labels of /^([<A-Za-z][^\s>]*)/ on the
\* lines of the text, each once, in line order
collectSubjectSet(text) ==
    LET found == SubjectsHeuristic(SplitLines(text), 1)
    IN  Distinct([i \in 1..Len(found) |-> found[i].label])

\* getCommonCompletionItemsGivenNamespaces(namespaceMap) of
\* stardog-language-utils: classes, then properties, named with the prefix
\* the map gives to the rdf namespace
getCommonCompletionItemsGivenNamespaces(namespaceMap) ==
    LET rdfKeys == SelectSeq(namespaceMap, LAMBDA e : e[2] = defaultPrefixEntries[1].iri)
    IN  [i \in 1..Len(rdfKeys) |-> [label |-> rdfKeys[i][1] \o ":Property", kind |-> "Class"]]
        \o [i \in 1..Len(rdfKeys) |-> [label |-> rdfKeys[i][1] \o ":type", kind |-> "Property"]]

\* the syntax keywords of lines 197-203
keywordItems ==
    <<[label |-> "@prefix", kind |-> "Keyword"], [label |-> "@base", kind |-> "Keyword"],
      [label |-> "a", kind |-> "Keyword"], [label |-> "BASE", kind |-> "Keyword"],
      [label |-> "PREFIX", kind |-> "Keyword"]>>

\* what build computes from the text alone: the namespace entries and the
\* prefix map its caller passes (part_001, lines 59-61) and the subject set
BuildInputs(text) ==
    [namespaces |-> collectNamespaceEntries(text),
     namespaceMap |-> buildPrefixMap(collectNamespaceEntries(text)),
     subjectSet |-> collectSubjectSet(text)]

BuildInputsTable == [text \in Texts \cup TypedTexts |-> BuildInputs(text)]

\* the orders in which the elements of a set can have been inserted
Orderings(S) ==
    {seq \in [1..Cardinality(S) -> S] :
        \A i, j \in 1..Cardinality(S) : seq[i] = seq[j] => i = j}

\* the order of Object.keys(index) and of Map.values(): one of the orders
\* of insertion
InsertionOrder(S) == CHOOSE seq \in Orderings(S) : TRUE

RECURSIVE Flatten(_, _, _)
\* items.concat(vocabItems) for the values of the cache, keys in the given order
Flatten(cache, keys, i) ==
    IF i > Len(keys) THEN <<>> ELSE cache[keys[i]] \o Flatten(cache, keys, i + 1)

\* the items vocabFromPrefix returns (lines 313-331): the cached items of
\* the prefix, or without a prefix the items of every cached vocabulary; the
\* kind of an item is the one the load gave it at lines 116-134
vocabFromPrefix(cache, currentPrefix, cacheOrder) ==
    LET labels == IF currentPrefix # ""
                  THEN (IF currentPrefix \in DOMAIN cache THEN cache[currentPrefix] ELSE <<>>)
                  ELSE Flatten(cache, cacheOrder, 1)
    IN  [i \in 1..Len(labels) |->
            [label |-> labels[i],
             kind |-> IF Slice(labels[i], IndexOf(labels[i], ":") + 1, Len(labels[i]))
                           \in {"Class", "Property"}
                      THEN "Class" ELSE "Property"]]

\* allItems of line 240: vocabulary items, subject items, prefix keywords,
\* syntax keywords
allItems(namespaces, namespaceMap, subjects, loaded) ==
    getCommonCompletionItemsGivenNamespaces(namespaceMap)
    \o loaded
    \o [i \in 1..Len(subjects) |->
           [label |-> abbreviateWithPrefixes(subjects[i], namespaceMap, 1), kind |-> "Reference"]]
    \o [i \in 1..Len(namespaces) |-> [label |-> namespaces[i].prefix \o ":", kind |-> "Keyword"]]
    \o keywordItems

\* label.toLowerCase().startsWith(queryLower): toLowerCase keeps the length,
\* so only the first characters of the label are lowered
startsWithLower(label, queryLower) ==
    /\ Len(queryLower) <= Len(label)
    /\ ToLower(Slice(label, 0, Len(queryLower))) = queryLower

\* bucket without the branch of lines 253-259: the prefix under the cursor
\* does not count
bucketByKindOnly(item, currentPrefix, queryLower) ==
    IF currentPrefix = "" /\ startsWithLower(item.label, queryLower) THEN "020"
    ELSE IF item.kind = "Reference" THEN "050"
    ELSE IF item.kind = "Keyword" THEN "100"
    ELSE "900"

\* bucket with the test of line 261 turned round: without a prefix under the
\* cursor, the items whose label the typed text begins with
bucketLabelWithinTyped(item, currentPrefix, queryLower) ==
    IF currentPrefix # "" /\ extractPrefix(item.label) = currentPrefix
    THEN (IF startsWithLower(item.label, queryLower) THEN "005" ELSE "010")
    ELSE IF currentPrefix = "" /\ startsWithLower(queryLower, ToLower(item.label)) THEN "020"
    ELSE IF item.kind = "Reference" THEN "050"
    ELSE IF item.kind = "Keyword" THEN "100"
    ELSE "900"

\* the bucket of lines 251-269 for an item
bucket(item, currentPrefix, queryLower) ==
    IF currentPrefix # "" /\ extractPrefix(item.label) = currentPrefix
    THEN (IF startsWithLower(item.label, queryLower) THEN "005" ELSE "010")
    ELSE IF currentPrefix = "" /\ startsWithLower(item.label, queryLower) THEN "020"
    ELSE IF item.kind = "Reference" THEN "050"
    ELSE IF item.kind = "Keyword" THEN "100"
    ELSE "900"

\* withSort of lines 245-275
withSort(items, currentPrefix, queryLower) ==
    [i \in 1..Len(items) |->
        [label |-> items[i].label, kind |-> items[i].kind,
         sortText |-> bucket(items[i], currentPrefix, queryLower) \o "_" \o items[i].label]]

RECURSIVE dedupeKeepingLast(_)
\* dedupe with the last item of every label kept instead of the first
dedupeKeepingLast(items) ==
    IF items = <<>> THEN <<>>
    ELSE dedupeKeepingLast(SelectSeq(SubSeq(items, 1, Len(items) - 1),
                                     LAMBDA x : x.label # items[Len(items)].label))
         \o <<items[Len(items)]>>

RECURSIVE dedupe(_)
\* the loop of lines 277-284: the first item of every label
dedupe(items) ==
    IF items = <<>> THEN <<>>
    ELSE <<Head(items)>>
         \o dedupe(SelectSeq(Tail(items), LAMBDA x : x.label # Head(items).label))

\* String.prototype.localeCompare with the default (root) collation:
\* punctuation, then symbols, then digits, then letters, a lowercase letter
\* right before its uppercase form
CollationOrder ==
    "_-,;:!?.()[]{}@*/&#%^+<=>|~$0123456789aAbBcCdDeEfFgGhHiIjJkKlLmMnNoOpPqQrRsStTuUvVwWxXyYzZ"

\* the weight of a character at a level: at the primary level (1) the two
\* cases of a letter weigh the same, at the tertiary level (3) they differ
CollationWeight ==
    [c \in {CharAt(CollationOrder, i) : i \in 0..(Len(CollationOrder) - 1)} |->
        [level \in {1, 3} |->
            IF level = 3 \/ IndexOf(CollationOrder, c) < IndexOf(CollationOrder, "a")
            THEN IndexOf(CollationOrder, c)
            ELSE IndexOf(CollationOrder, "a")
                 + (IndexOf(CollationOrder, c) - IndexOf(CollationOrder, "a")) \div 2]]

RECURSIVE CompareAtLevel(_, _, _, _)
\* the comparison of the weights of a and b at one level, from character i
CompareAtLevel(a, b, i, level) ==
    IF i >= Len(a) \/ i >= Len(b)
    THEN (IF Len(a) < Len(b) THEN -1 ELSE IF Len(a) > Len(b) THEN 1 ELSE 0)
    ELSE IF CharAt(a, i) = CharAt(b, i) THEN CompareAtLevel(a, b, i + 1, level)
    ELSE IF CollationWeight[CharAt(a, i)][level] < CollationWeight[CharAt(b, i)][level] THEN -1
    ELSE IF CollationWeight[CharAt(a, i)][level] > CollationWeight[CharAt(b, i)][level] THEN 1
    ELSE CompareAtLevel(a, b, i + 1, level)

\* a.localeCompare(b): negative, zero or positive
localeCompare(a, b) ==
    LET primary == CompareAtLevel(a, b, 0, 1)
    IN  IF primary # 0 THEN primary ELSE CompareAtLevel(a, b, 0, 3)

\* sortBySortText without the sort: the deduplicated list as it is
sortBySortTextSkipped(items) == items

\* deduped.sort((a, b) => a.sortText.localeCompare(b.sortText)): a stable
\* sort, an item moving before the items it compares less than
sortBySortText(items) ==
    SortSeq(items, LAMBDA a, b : localeCompare(a.sortText, b.sortText) < 0)

\* the list build returns (lines 237-286) for a request whose await has
\* returned with the cache as it is then, the index having yielded its
\* subjects in the order globalOrder and the cache its keys in the order
\* cacheOrder
buildItems(request, cache, globalOrder, cacheOrder) ==
    sortBySortText(dedupe(withSort(
        allItems(BuildInputsTable[request.text].namespaces,
                 BuildInputsTable[request.text].namespaceMap,
                 Distinct(BuildInputsTable[request.text].subjectSet \o globalOrder),
                 vocabFromPrefix(cache, request.currentPrefix, cacheOrder)),
        request.currentPrefix, ToLower(request.current))))

\* NeedsLoad with every pending load awaited: vocabFromPrefix waits whenever
\* some vocabulary is still loading
NeedsLoadWhileAnyPending(eng, currentPrefix) ==
    \/ eng.loadingPromises # {}
    \/ /\ currentPrefix # ""
       /\ currentPrefix \notin DOMAIN eng.cachedVocabs
       /\ ProviderKnows(currentPrefix)

\* the condition of line 316 under which vocabFromPrefix awaits a load
NeedsLoad(eng, currentPrefix) ==
    /\ currentPrefix # ""
    /\ currentPrefix \notin DOMAIN eng.cachedVocabs
    /\ ProviderKnows(currentPrefix)

\* vocabFromCache with the fuzzy mode in every case: the terms of every
\* cached vocabulary, whatever the prefix
vocabFromWholeCache(cache, currentPrefix) ==
    UNION {Elements(cache[k]) : k \in DOMAIN cache}

\* the vocabulary items vocabFromPrefix returns from the cache (lines 319-324)
vocabFromCache(cache, currentPrefix) ==
    IF currentPrefix # ""
    THEN (IF currentPrefix \in DOMAIN cache THEN Elements(cache[currentPrefix]) ELSE {})
    ELSE UNION {Elements(cache[k]) : k \in DOMAIN cache}

\* build returning with the subjects of the index at its return: it reads
\* the index again after the await
BuildResultOfIndexAtReturn(request, cache) ==
    [uri |-> request.uri, currentPrefix |-> request.currentPrefix,
     subjects |-> collectGlobalSubjects(request.currentPrefix),
     vocabulary |-> vocabFromCache(cache, request.currentPrefix),
     request |-> [request EXCEPT !.globalSubjects = collectGlobalSubjects(request.currentPrefix)],
     cache |-> cache]

\* the result of a build call once vocabFromPrefix has returned: what the
\* call read before its await (request) and the cache at its return, on
\* which the returned list depends, with the subject and vocabulary
\* candidates drawn from them
BuildResult(request, cache) ==
    [uri |-> request.uri, currentPrefix |-> request.currentPrefix,
     subjects |-> request.globalSubjects,
     vocabulary |-> vocabFromCache(cache, request.currentPrefix),
     request |-> request, cache |-> cache]

\* the list a build call has returned: the list built from what the call
\* read before its await and from the cache at its return
ReturnedItems(result) ==
    buildItems(result.request, result.cache, InsertionOrder(result.request.globalSubjects),
               InsertionOrder(DOMAIN result.cache))

(***************************************************************************)
(* src/unnamed/part_001: ensureVocabLoaded and its caller                  *)
(***************************************************************************)
DiagState == [validTermsCache |-> validTermsCache, loadingVocabs |-> loadingVocabs,
              diagFetching |-> diagFetching]

\* ensureVocabLoaded(prefix) up to its await (lines 260-267)
ensureVocabLoaded(dg, prefix) ==
    IF prefix \in DOMAIN dg.validTermsCache \/ prefix \in dg.loadingVocabs THEN dg
    ELSE IF ~ProviderKnows(prefix) THEN dg
    ELSE [dg EXCEPT !.loadingVocabs = @ \cup {prefix},
                    !.diagFetching = Increment(@, prefix)]

RECURSIVE diagnosticsLoads(_, _, _)
\* the fire-and-forget loads of one diagnostics pass (lines 375-390)
diagnosticsLoads(dg, uses, i) ==
    IF i > Len(uses) THEN dg
    ELSE IF uses[i] \in DOMAIN dg.validTermsCache
    THEN diagnosticsLoads(dg, uses, i + 1)
    ELSE diagnosticsLoads(ensureVocabLoaded(dg, uses[i]), uses, i + 1)

\* ensureVocabLoaded after its await (lines 268-285)
settleDiagLoad(dg, prefix, outcome) ==
    [validTermsCache |-> IF outcome = "dataset"
                         THEN SetKey(dg.validTermsCache, prefix, Elements(ProviderTerms(prefix)))
                         ELSE dg.validTermsCache,
     loadingVocabs |-> dg.loadingVocabs \ {prefix},
     diagFetching |-> Decrement(dg.diagFetching, prefix)]

InstallDiag(dg) ==
    /\ validTermsCache' = dg.validTermsCache
    /\ loadingVocabs' = dg.loadingVocabs
    /\ diagFetching' = dg.diagFetching

Init ==
    /\ prefixIndex = EmptyMap
    /\ subjectIndex = EmptyMap
    /\ symbolIndex = EmptyMap
    /\ docCache = EmptyMap
    /\ workspaceIndexed = FALSE
    /\ documents = EmptyMap
    /\ disk = EmptyMap
    /\ cachedVocabs = NewEngine.cachedVocabs
    /\ loadingPromises = NewEngine.loadingPromises
    /\ fetching = NewEngine.fetching
    /\ awaiting = <<>>
    /\ validTermsCache = EmptyMap
    /\ loadingVocabs = {}
    /\ diagFetching = EmptyMap
    /\ lastCall = [op |-> "new"]
    /\ response = NoResponse

(***************************************************************************)
(* The Indexer's two mutators called directly                              *)
(***************************************************************************)
ReindexDocument(uri, text) ==
    /\ InstallOutcome(reindexDocument(IndexerState, uri, text))
    /\ lastCall' = [op |-> "reindexDocument", uri |-> uri, text |-> text]
    /\ UNCHANGED <<workspaceIndexed, documents, disk, engineVars, diagVars>>

RemoveFromIndexes(uri) ==
    /\ InstallOutcome(removeFromIndexes(IndexerState, uri))
    /\ lastCall' = [op |-> "removeFromIndexes", uri |-> uri]
    /\ UNCHANGED <<workspaceIndexed, documents, disk, engineVars, diagVars>>

NextIndexer ==
    \/ \E uri \in Uris, text \in Texts : ReindexDocument(uri, text)
    \/ \E uri \in Uris : RemoveFromIndexes(uri)

SpecIndexer == Init /\ [][NextIndexer]_vars

(***************************************************************************)
(* The handlers of the language server (src/unnamed/part_001)              *)
(***************************************************************************)
\* the documents an editor opens, and the files of the workspace
OpenUris == {UriA, UriC}
DiskUris == {UriC}
\* what a workspace file may contain: a modelled text or nothing
DiskTexts == {TextBob, TextBobby, ""}
\* the texts an editor sends
EditorTexts == {TextBob, TextDeclBob, TextCtor}
\* the cursor positions of the requests
Positions == {Position(0, 1), Position(1, 1), Position(1, 10)}
NewName == "ex:Robert"

\* listTurtleFiles: the workspace files in listing order
ListingOrder == <<UriA, UriB, UriC>>
listTurtleFiles(dsk) == SelectSeq(ListingOrder, LAMBDA uri : uri \in DOMAIN dsk)

RECURSIVE indexFiles(_, _, _, _)
\* the loop of indexWorkspace (lines 111-116); an exception of
\* reindexDocument ends it
indexFiles(st, dsk, files, i) ==
    IF i > Len(files) \/ st.threw THEN st
    ELSE IF dsk[files[i]] = "" THEN indexFiles(st, dsk, files, i + 1)
    ELSE indexFiles(reindexDocument(st, files[i], dsk[files[i]]), dsk, files, i + 1)

\* indexWorkspace without the guard of line 108: the bootstrap runs on every
\* call
indexWorkspaceEveryCall(st, indexed, dsk) == indexFiles(st, dsk, listTurtleFiles(dsk), 1)

\* indexWorkspace(); the workspace root is process.cwd(), never undefined
indexWorkspace(st, indexed, dsk) ==
    IF indexed THEN st ELSE indexFiles(st, dsk, listTurtleFiles(dsk), 1)

\* a file of the workspace is written behind the server's back
DiskWrite(uri, text) ==
    /\ disk' = SetKey(disk, uri, text)
    /\ lastCall' = [op |-> "diskWrite", uri |-> uri]
    /\ response' = NoResponse
    /\ UNCHANGED <<indexVars, workspaceIndexed, documents, engineVars, diagVars>>

\* onInitialization: registers the handlers and calls indexWorkspace
Initialize ==
    /\ InstallOutcome(indexWorkspace(IndexerState, workspaceIndexed, disk))
    /\ workspaceIndexed' = TRUE
    /\ lastCall' = [op |-> "initialize"]
    /\ UNCHANGED <<documents, disk, engineVars, diagVars>>

\* the contribution record the Indexer keeps for uri (this.docCache[uri]),
\* as a list of none or one
ContributionRecord(st, uri) ==
    IF uri \in DOMAIN st.docCache THEN <<st.docCache[uri]>> ELSE <<>>

\* sendDiagnostics called after reindexDocument
IndexWhenSentReindexed(st, uri, text) == reindexDocument(st, uri, text)

\* the Indexer state in which sendDiagnostics is called (line 217), st being
\* the state in which the handler started: reindexDocument is the statement
\* after it (line 218)
IndexWhenSent(st, uri, text) == st

\* onContentChange (lines 168-220) for an opened or changed document: the
\* diagnostics pass with its vocabulary loads, the diagnostics sent to the
\* client (those of the Turtle parser aside), then reindexDocument.  When
\* the pass failed, an exception ended it after `reached` of its suffix
\* checks and the catch of line 203 made the diagnostics.
ChangeHandler(uri, text, failed, reached) ==
    /\ workspaceIndexed
    /\ documents' = SetKey(documents, uri, text)
    /\ InstallDiag(diagnosticsLoads(DiagState, SubSeq(VocabularyUsesTable[text], 1, reached), 1))
    /\ InstallOutcome(reindexDocument(IndexerState, uri, text))
    /\ lastCall' = [op |-> "onContentChange", uri |-> uri, failed |-> failed,
                    published |-> IF failed THEN <<InternalError>>
                                  ELSE basicDiagnostics(text, validTermsCache),
                    indexed |-> ContributionRecord(IndexWhenSent(IndexerState, uri, text), uri)]
    /\ UNCHANGED <<workspaceIndexed, disk, engineVars>>

\* onContentChange with a diagnostics pass that returns
OnContentChange(uri, text) == ChangeHandler(uri, text, FALSE, Len(VocabularyUsesTable[text]))

\* onContentChange with a diagnostics pass that throws
OnContentChangeFailing(uri, text) ==
    \E reached \in 0..Len(VocabularyUsesTable[text]) : ChangeHandler(uri, text, TRUE, reached)

\* onDidCloseTextDocument
DidClose(uri) ==
    /\ workspaceIndexed
    /\ uri \in DOMAIN documents
    /\ documents' = DeleteKey(documents, uri)
    /\ InstallOutcome(removeFromIndexes(IndexerState, uri))
    /\ lastCall' = [op |-> "didClose", uri |-> uri]
    /\ UNCHANGED <<workspaceIndexed, disk, engineVars, diagVars>>

\* a request that only reads: its answer becomes the response
Answer(op, uri, position, answer) ==
    /\ workspaceIndexed
    /\ lastCall' = [op |-> op, uri |-> uri, position |-> position]
    /\ response' = answer
    /\ UNCHANGED <<indexVars, workspaceIndexed, documents, disk, engineVars, diagVars>>

Definition(uri, position) == Answer("definition", uri, position, definition(uri, position))
References(uri, position) == Answer("references", uri, position, references(uri, position))
Rename(uri, position) == Answer("rename", uri, position, rename(uri, position, NewName))

\* build without the await of line 317: it answers from the cache as it is
BuildWithoutWaiting(request) ==
    /\ response' = [kind |-> "completions",
                    results |-> <<BuildResult(request, cachedVocabs)>>]
    /\ UNCHANGED <<engineVars>>

\* build(params, doc, ...) from its call to its return or to its await of
\* the load of the prefix under the cursor
Build(request) ==
    IF NeedsLoad(EngineState, request.currentPrefix)
    THEN /\ Len(awaiting) < MaxAwaiting
         /\ InstallEngine(loadVocabularyIntoCache(EngineState, request.currentPrefix))
         /\ awaiting' = Append(awaiting, request)
         /\ response' = [kind |-> "suspended"]
    ELSE /\ response' = [kind |-> "completions",
                         results |-> <<BuildResult(request, cachedVocabs)>>]
         /\ UNCHANGED <<engineVars>>

\* onCompletion: build either returns in the same turn or is suspended on
\* the load of the prefix under the cursor
Completion(uri, position) ==
    /\ workspaceIndexed
    /\ lastCall' = [op |-> "completion", uri |-> uri, position |-> position]
    /\ IF uri \notin DOMAIN documents
       THEN /\ response' = [kind |-> "completions", results |-> <<>>]
            /\ UNCHANGED <<engineVars>>
       ELSE Build(BuildRequest(uri, position))
    /\ UNCHANGED <<indexVars, workspaceIndexed, documents, disk, diagVars>>

\* preloadFromDocument(doc) for an open document
PreloadFromDocument(uri) ==
    /\ uri \in DOMAIN documents
    /\ InstallEngine(preloadPrefixes(EngineState, ScanForPrefixesTable[documents[uri]], 1))
    /\ lastCall' = [op |-> "preloadFromDocument", uri |-> uri]
    /\ response' = NoResponse
    /\ UNCHANGED <<indexVars, workspaceIndexed, documents, disk, awaiting, diagVars>>

\* a provider call of the engine settles: the load continues, its promise is
\* removed and the build calls that awaited it return
FetchSettles(prefix, outcome) ==
    LET eng == settleLoad(EngineState, prefix, outcome)
        resumed == SelectSeq(awaiting, LAMBDA request : request.currentPrefix = prefix)
    IN  /\ Count(fetching, prefix) > 0
        /\ InstallEngine(eng)
        /\ awaiting' = SelectSeq(awaiting, LAMBDA request : request.currentPrefix # prefix)
        /\ lastCall' = [op |-> "fetchSettles", prefix |-> prefix, outcome |-> outcome]
        /\ response' = [kind |-> "completions",
                        results |-> [i \in 1..Len(resumed) |->
                                        BuildResult(resumed[i], eng.cachedVocabs)]]
        /\ UNCHANGED <<indexVars, workspaceIndexed, documents, disk, diagVars>>

FetchSucceeds(prefix) == prefix \in ZazukoPrefixes /\ FetchSettles(prefix, "dataset")
FetchReturnsNothing(prefix) == FetchSettles(prefix, "nothing")
FetchFails(prefix) == FetchSettles(prefix, "error")

\* a provider call of ensureVocabLoaded settles
DiagFetchSettles(prefix, outcome) ==
    /\ Count(diagFetching, prefix) > 0
    /\ InstallDiag(settleDiagLoad(DiagState, prefix, outcome))
    /\ lastCall' = [op |-> "diagFetchSettles", prefix |-> prefix, outcome |-> outcome]
    /\ response' = NoResponse
    /\ UNCHANGED <<indexVars, workspaceIndexed, documents, disk, engineVars>>

DiagFetchSucceeds(prefix) == prefix \in ZazukoPrefixes /\ DiagFetchSettles(prefix, "dataset")
DiagFetchFails(prefix) == DiagFetchSettles(prefix, "error")

\* every key a load can be asked for
VocabKeys == ZazukoPrefixes \cup ProtoKeys

\* navigation over the index: workspace files, open documents, requests
NextNavigation ==
    \/ \E uri \in DiskUris, text \in DiskTexts : DiskWrite(uri, text)
    \/ Initialize
    \/ \E uri \in OpenUris, text \in EditorTexts : OnContentChange(uri, text)
    \/ \E uri \in OpenUris : DidClose(uri)
    \/ \E uri \in OpenUris, position \in Positions : Definition(uri, position)
    \/ \E uri \in OpenUris, position \in Positions : References(uri, position)
    \/ \E uri \in OpenUris, position \in Positions : Rename(uri, position)

SpecNavigation == Init /\ [][NextNavigation]_vars

\* the document, texts and cursor positions of the completion requests: the
\* cursor is in rdf:Property of TextBob, in rdf: or constructor: of TextCtor
VocabUris == {UriA}
VocabTexts == {TextBob, TextCtor}
VocabPositions == {Position(0, 10), Position(1, 10)}

\* vocabulary loading: the engine's and the diagnostics pass's loads
NextVocabulary ==
    \/ Initialize
    \/ \E uri \in VocabUris, text \in VocabTexts : OnContentChange(uri, text)
    \/ \E uri \in VocabUris, position \in VocabPositions : Completion(uri, position)
    \/ \E uri \in VocabUris : PreloadFromDocument(uri)
    \/ \E prefix \in VocabKeys : FetchSucceeds(prefix)
    \/ \E prefix \in VocabKeys : FetchReturnsNothing(prefix)
    \/ \E prefix \in VocabKeys : FetchFails(prefix)
    \/ \E prefix \in VocabKeys : DiagFetchSucceeds(prefix)
    \/ \E prefix \in VocabKeys : DiagFetchFails(prefix)

SpecVocabulary == Init /\ [][NextVocabulary]_vars

\* every handler interleaved, on one open document and one workspace file
Next ==
    \/ \E uri \in DiskUris : DiskWrite(uri, TextBob)
    \/ Initialize
    \/ \E uri \in VocabUris, text \in VocabTexts : OnContentChange(uri, text)
    \/ \E uri \in VocabUris : DidClose(uri)
    \/ \E uri \in VocabUris : Definition(uri, Position(0, 10))
    \/ \E uri \in VocabUris : References(uri, Position(0, 10))
    \/ \E uri \in VocabUris : Rename(uri, Position(0, 10))
    \/ \E uri \in VocabUris : Completion(uri, Position(0, 10))
    \/ \E uri \in VocabUris : PreloadFromDocument(uri)
    \/ \E prefix \in VocabKeys : FetchSucceeds(prefix)
    \/ \E prefix \in VocabKeys : FetchReturnsNothing(prefix)
    \/ \E prefix \in VocabKeys : FetchFails(prefix)
    \/ \E prefix \in VocabKeys : DiagFetchSucceeds(prefix)
    \/ \E prefix \in VocabKeys : DiagFetchFails(prefix)

Spec == Init /\ [][Next]_vars

\* the cursor is in the document a.ttl, another document c.ttl is open
\* beside it; the cursor is in the first word of the text (ex:Bob, prefix,
\* alice), at character 20 of the first line (in rdf:Property of TextBob), or
\* at line 2 (rdf:x of TextCtor, pre of TextTyping, the end of TextBob)
CursorTexts == {TextBob, TextCtor, TextTyping}
OtherTexts == {TextIri, TextCtor}
CompletionPositions == {Position(0, 1), Position(0, 20), Position(2, 0)}

\* completion over the index and the vocabulary cache
NextCompletion ==
    \/ Initialize
    \/ \E text \in CursorTexts : OnContentChange(UriA, text)
    \/ \E text \in OtherTexts : OnContentChange(UriC, text)
    \/ DidClose(UriC)
    \/ \E position \in CompletionPositions : Completion(UriA, position)
    \/ \E prefix \in VocabKeys : FetchSucceeds(prefix)

SpecCompletion == Init /\ [][NextCompletion]_vars

\* the key whose fetch by the engine never completes
HungKey == "rdf"

FetchSettlesFor(prefix) ==
    FetchSucceeds(prefix) \/ FetchReturnsNothing(prefix) \/ FetchFails(prefix)

\* the documents of the diagnostics pass: those of DiagnosticTexts, a use of
\* rdf without a declaration and a declared prefix named constructor
LintTexts == DiagnosticTexts \cup {TextBob, TextCtor}

\* the diagnostics pass: documents are opened and changed, and the loads the
\* pass starts settle
NextDiagnostics ==
    \/ Initialize
    \/ \E text \in LintTexts : OnContentChange(UriA, text)
    \/ \E text \in LintTexts : OnContentChangeFailing(UriA, text)
    \/ \E prefix \in VocabKeys : DiagFetchSucceeds(prefix)
    \/ \E prefix \in VocabKeys : DiagFetchFails(prefix)

SpecDiagnostics == Init /\ [][NextDiagnostics]_vars

\* every handler while the provider never answers the engine's fetch of
\* HungKey
NextHung ==
    \/ Initialize
    \/ \E uri \in VocabUris, text \in VocabTexts : OnContentChange(uri, text)
    \/ \E uri \in VocabUris : DidClose(uri)
    \/ \E uri \in VocabUris : Definition(uri, Position(0, 10))
    \/ \E uri \in VocabUris, position \in VocabPositions : Completion(uri, position)
    \/ \E uri \in VocabUris : PreloadFromDocument(uri)
    \/ \E prefix \in VocabKeys \ {HungKey} : FetchSettlesFor(prefix)

\* the provider answers every other fetch: a pending promise of the event
\* loop is eventually settled
SpecHung ==
    /\ Init
    /\ [][NextHung]_vars
    /\ \A prefix \in VocabKeys \ {HungKey} : WF_vars(FetchSettlesFor(prefix))

(***************************************************************************)
(* Index consistency                                                       *)
(***************************************************************************)
\* the (label, document, range) entries of a global index
IndexEntries(index) ==
    UNION {{<<label, index[label][i].uri, index[label][i].range>> : i \in 1..Len(index[label])} :
           label \in DOMAIN index}

\* the (label, document, range) entries of one kind in the contribution records
ContributedEntries(kind) ==
    UNION {{<<docCache[uri][kind][i].label, uri, docCache[uri][kind][i].range>> :
              i \in 1..Len(docCache[uri][kind])} :
           uri \in DOMAIN docCache}

\* C1: the three global indexes and the contribution records of the tracked
\* documents hold exactly the same (label, document, range) entries: no
\* index entry without a contribution entry, no contribution entry missing
\* from its index.
IndexesAgreeWithContributions ==
    /\ IndexEntries(prefixIndex) = ContributedEntries("prefixes")
    /\ IndexEntries(subjectIndex) = ContributedEntries("subjects")
    /\ IndexEntries(symbolIndex) = ContributedEntries("symbols")

\* st has the indexes and the contribution records of the current state
IsIndexerState(st) ==
    /\ st.prefixIndex = prefixIndex
    /\ st.subjectIndex = subjectIndex
    /\ st.symbolIndex = symbolIndex
    /\ st.docCache = docCache

\* C2: right after reindexDocument(uri, text), a second reindexDocument with
\* the same arguments leaves the three indexes (location order included) and
\* the contribution records as they are.
ReindexTwiceIsReindexOnce ==
    lastCall.op = "reindexDocument" =>
        IsIndexerState(reindexDocument(IndexerState, lastCall.uri, lastCall.text))

\* the ranges filed under label for document uri, in index order
RangesOfDocument(index, label, uri) ==
    IF label \notin DOMAIN index THEN <<>>
    ELSE LET own == SelectSeq(index[label], LAMBDA loc : loc.uri = uri)
         IN  [i \in 1..Len(own) |-> own[i].range]

\* the ranges extracted for label, in extraction order
RangesOfEntries(entries, label) ==
    LET own == SelectSeq(entries, LAMBDA e : e.label = label)
    IN  [i \in 1..Len(own) |-> own[i].range]

LabelsOf(entries) == {entries[i].label : i \in 1..Len(entries)}

\* the locations of document uri in index are exactly the extracted entries
HoldsExactly(index, uri, entries) ==
    \A label \in DOMAIN index \cup LabelsOf(entries) :
        RangesOfDocument(index, label, uri) = RangesOfEntries(entries, label)

\* the locations of document uri in the three indexes are those of extracted
HoldsContribution(uri, extracted) ==
    /\ HoldsExactly(prefixIndex, uri, extracted.prefixes)
    /\ HoldsExactly(subjectIndex, uri, extracted.subjects)
    /\ HoldsExactly(symbolIndex, uri, extracted.symbols)

\* C3: right after reindexDocument(uri, newText) the locations of uri in each
\* index are exactly the entries extracted from newText, each once per
\* extracted entry, whatever uri contributed before.
ReindexSupersedesOldEntries ==
    lastCall.op = "reindexDocument" =>
        HoldsContribution(lastCall.uri, Contribution(lastCall.text))

\* the locations filed under label for documents other than uri, in order
LocationsOfOthers(index, label, uri) ==
    IF label \notin DOMAIN index THEN <<>>
    ELSE SelectSeq(index[label], LAMBDA loc : loc.uri # uri)

\* no location of document uri is left in index
HoldsNothingOf(index, uri) ==
    \A label \in DOMAIN index : \A i \in 1..Len(index[label]) : index[label][i].uri # uri

\* the labels of one kind that only document uri has in its contribution record
LabelsOnlyOf(cache, uri, kind) ==
    IF uri \notin DOMAIN cache THEN {}
    ELSE {label \in LabelsOf(cache[uri][kind]) :
            \A other \in DOMAIN cache \ {uri} : label \notin LabelsOf(cache[other][kind])}

EmptyList == [array |-> TRUE, items |-> <<>>]

\* removeFromIndexes(uri) leaves no location of uri in the indexes
RemoveLeavesNoLocation ==
    /\ HoldsNothingOf(prefixIndex', lastCall'.uri)
    /\ HoldsNothingOf(subjectIndex', lastCall'.uri)
    /\ HoldsNothingOf(symbolIndex', lastCall'.uri)

\* removeFromIndexes(uri) keeps the locations of the other documents, in order
RemoveKeepsOthers ==
    /\ \A label \in DOMAIN prefixIndex \cup DOMAIN prefixIndex' :
         LocationsOfOthers(prefixIndex', label, lastCall'.uri)
           = LocationsOfOthers(prefixIndex, label, lastCall'.uri)
    /\ \A label \in DOMAIN subjectIndex \cup DOMAIN subjectIndex' :
         LocationsOfOthers(subjectIndex', label, lastCall'.uri)
           = LocationsOfOthers(subjectIndex, label, lastCall'.uri)
    /\ \A label \in DOMAIN symbolIndex \cup DOMAIN symbolIndex' :
         LocationsOfOthers(symbolIndex', label, lastCall'.uri)
           = LocationsOfOthers(symbolIndex, label, lastCall'.uri)

\* after removeFromIndexes(uri), looking up a label that only uri contributed
\* gives the empty list
RemoveEmptiesOwnLabels ==
    /\ \A label \in LabelsOnlyOf(docCache, lastCall'.uri, "prefixes") :
         Lookup(prefixIndex', label) = EmptyList
    /\ \A label \in LabelsOnlyOf(docCache, lastCall'.uri, "subjects") :
         Lookup(subjectIndex', label) = EmptyList
    /\ \A label \in LabelsOnlyOf(docCache, lastCall'.uri, "symbols") :
         Lookup(symbolIndex', label) = EmptyList

\* removeFromIndexes(uri) of an untracked document changes nothing
RemoveUntrackedIsNoOp ==
    lastCall'.uri \notin DOMAIN docCache => UNCHANGED indexVars

\* C4: every removeFromIndexes(uri) step leaves no location of uri in the
\* three indexes, makes the lookup of every label that only uri contributed
\* return the empty list, keeps the locations of all other documents in
\* their order, and changes nothing when uri is not tracked.
RemoveTakesExactlyOwnEntries ==
    [][lastCall'.op = "removeFromIndexes" =>
          /\ RemoveLeavesNoLocation
          /\ RemoveEmptiesOwnLabels
          /\ RemoveKeepsOthers
          /\ RemoveUntrackedIsNoOp]_vars

(***************************************************************************)
(* Vocabulary loading                                                      *)
(***************************************************************************)
\* the build calls suspended on the load of key
Awaiting(key) == SelectSeq(awaiting, LAMBDA request : request.currentPrefix = key)

\* C5: the engine never has more than one provider call in flight for a
\* key: while a load of the key is pending there is exactly one call, and
\* every build call that needs the key waits on that pending load.
EngineLoadsSingleFlight ==
    \A key \in VocabKeys :
        /\ Count(fetching, key) <= 1
        /\ key \in loadingPromises => Count(fetching, key) = 1
        /\ Len(Awaiting(key)) > 0 => (key \in loadingPromises /\ Count(fetching, key) = 1)

\* three requesters of the uncached key rdf (the constructor's preload and
\* two build calls) share one provider call
ThreeRequestersOneFetch ==
    /\ Len(Awaiting("rdf")) = 2
    /\ "rdf" \notin DOMAIN cachedVocabs
    /\ Count(fetching, "rdf") = 1

\* C6: in the whole process at most one provider call per key is in flight,
\* the calls of the engine and of ensureVocabLoaded counted together.
ProcessLoadsSingleFlight ==
    \A key \in VocabKeys : Count(fetching, key) + Count(diagFetching, key) <= 1

\* the state of a key of the completion cache
KeyState(cache, promises, key) ==
    IF key \in DOMAIN cache THEN "Cached"
    ELSE IF key \in promises THEN "Loading"
    ELSE "Unloaded"

KeyTransitions == {<<"Unloaded", "Unloaded">>, <<"Unloaded", "Loading">>,
                   <<"Loading", "Loading">>, <<"Loading", "Cached">>,
                   <<"Loading", "Unloaded">>, <<"Cached", "Cached">>}

\* the in-flight token of a key exists exactly while its load is pending
TokenOnlyWhileLoading ==
    \A key \in VocabKeys :
        /\ key \in loadingPromises <=> Count(fetching, key) > 0
        /\ key \in loadingPromises => key \notin DOMAIN cachedVocabs

\* one step of every key: an allowed transition; a cached entry stays as it
\* is and no fetch starts for it
KeyStep ==
    \A key \in VocabKeys :
        /\ <<KeyState(cachedVocabs, loadingPromises, key),
             KeyState(cachedVocabs', loadingPromises', key)>> \in KeyTransitions
        /\ key \in DOMAIN cachedVocabs =>
             /\ key \in DOMAIN cachedVocabs'
             /\ cachedVocabs'[key] = cachedVocabs[key]
             /\ Count(fetching', key) = 0

\* C10: every key of the completion cache goes Unloaded -> Loading ->
\* Cached or back to Unloaded; its in-flight token exists only while the
\* load is pending; a cached entry is never replaced, changed or evicted
\* and no fetch is started for a cached key.
KeyLifecycle == [](TokenOnlyWhileLoading) /\ [][KeyStep]_vars

\* a build call answered from the cache of rdf after its load succeeded
AnsweredFromCache ==
    /\ lastCall.op = "completion"
    /\ "rdf" \in DOMAIN cachedVocabs
    /\ response.kind = "completions"
    /\ Len(response.results) = 1
    /\ response.results[1].currentPrefix = "rdf"
    /\ response.results[1].vocabulary # {}

(***************************************************************************)
(* Navigation                                                              *)
(***************************************************************************)
RequestOps == {"definition", "references", "rename", "completion"}

\* the document of lastCall is open and the token under its cursor is word
RequestOn(word) ==
    /\ lastCall.uri \in DOMAIN documents
    /\ currentWord(documents[lastCall.uri], lastCall.position) = word

\* document uri is tracked with a contribution that has subject label
HasSubject(uri, label) ==
    /\ uri \in DOMAIN docCache
    /\ label \in LabelsOf(docCache[uri].subjects)

\* C8: with exactly the two open documents indexed, each with subject
\* ex:Bob, a references request on the token ex:Bob returns exactly two
\* locations, one in each document.
ReferencesOnePerDocument ==
    (/\ lastCall.op = "references"
     /\ DOMAIN documents = OpenUris
     /\ DOMAIN docCache = OpenUris
     /\ \A uri \in OpenUris : HasSubject(uri, "ex:Bob")
     /\ RequestOn("ex:Bob"))
    => /\ response.kind = "locations"
       /\ Len(response.locations) = 2
       /\ {response.locations[i].uri : i \in 1..Len(response.locations)} = OpenUris

\* the text now at a location: of the open document, else of the file on
\* disk; "" when there is neither
LiveText(uri, range) ==
    IF uri \in DOMAIN documents THEN GetText(documents[uri], range)
    ELSE IF uri \in DOMAIN disk THEN GetText(disk[uri], range)
    ELSE ""

\* the token that now stands at the start of a location
LiveToken(uri, range) ==
    LET text == IF uri \in DOMAIN documents THEN documents[uri]
                ELSE IF uri \in DOMAIN disk THEN disk[uri] ELSE ""
    IN  currentWord(text, range.start)

\* the (document, range) pairs of an edit plan
PlannedEdits(r) ==
    IF r.kind # "edit" THEN {}
    ELSE UNION {{<<uri, r.changes[uri][i].range>> : i \in 1..Len(r.changes[uri])} :
                uri \in DOMAIN r.changes}

\* C7: every location of a rename plan still has the renamed token as its
\* live text; in particular a location where ex:Bob has become ex:Bobby on
\* disk is not in the plan of a rename of ex:Bob.
RenameSkipsChangedLocations ==
    lastCall.op = "rename" =>
        \A edit \in PlannedEdits(response) :
            /\ LiveText(edit[1], edit[2]) = response.word
            /\ LiveToken(edit[1], edit[2]) = response.word

\* C9: whenever a request has run, the index state it read held the whole
\* contribution of every tracked document (none removed and not yet
\* reinstalled).
RequestsSeeWholeContributions ==
    lastCall.op \in RequestOps =>
        /\ ContributedEntries("prefixes") \subseteq IndexEntries(prefixIndex)
        /\ ContributedEntries("subjects") \subseteq IndexEntries(subjectIndex)
        /\ ContributedEntries("symbols") \subseteq IndexEntries(symbolIndex)

(***************************************************************************)
(* Failed and hung vocabulary loads                                        *)
(***************************************************************************)
\* the step is the settling of the engine's fetch of key with an error
FetchFailedFor(key) ==
    /\ lastCall'.op = "fetchSettles"
    /\ lastCall'.outcome = "error"
    /\ lastCall'.prefix = key

\* after the failure the key is neither cached nor loading, and every build
\* call that awaited the load has returned a list without the key's terms
FailureLeavesUnloaded(key) ==
    /\ KeyState(cachedVocabs', loadingPromises', key) = "Unloaded"
    /\ Count(fetching', key) = 0
    /\ response'.kind = "completions"
    /\ Len(response'.results) = Len(Awaiting(key))
    /\ \A i \in 1..Len(response'.results) :
          /\ response'.results[i].currentPrefix = key
          /\ response'.results[i].vocabulary = {}
    /\ \A i \in 1..Len(awaiting') : awaiting'[i].currentPrefix # key

\* the step is a build call whose cursor is inside key, on an open document
BuildCallOn(key) ==
    /\ lastCall'.op = "completion"
    /\ lastCall'.uri \in DOMAIN documents
    /\ BuildRequest(lastCall'.uri, lastCall'.position).currentPrefix = key

\* a build call that needs an unloaded key starts a fetch of it
UnloadedKeyIsFetched(key) ==
    (/\ KeyState(cachedVocabs, loadingPromises, key) = "Unloaded"
     /\ ProviderKnows(key)
     /\ BuildCallOn(key))
    => (Count(fetching, key) = 0 /\ Count(fetching', key) = 1)

\* C11: when the fetch of a key fails, the key ends neither cached nor
\* loading, every build call that awaited the load returns a completion list
\* (without terms of that vocabulary) instead of an error, and a later build
\* call that needs the key starts a new fetch.
FailedLoadIsContained ==
    [][\A key \in VocabKeys :
          /\ FetchFailedFor(key) => FailureLeavesUnloaded(key)
          /\ UnloadedKeyIsFetched(key)]_vars

\* the fetch of rdf has failed while a build call awaited it, and the call
\* has returned
FailedLoadAnswered ==
    /\ lastCall.op = "fetchSettles"
    /\ lastCall.outcome = "error"
    /\ lastCall.prefix = "rdf"
    /\ response.kind = "completions"
    /\ Len(response.results) >= 1
    /\ KeyState(cachedVocabs, loadingPromises, "rdf") = "Unloaded"

\* the keys a build call can wait for, other than the hung one
OtherKeys == (VocabKeys \cup {""}) \ {HungKey}

\* the hung key stays Loading
HungKeyStaysLoading == KeyState(cachedVocabs, loadingPromises, HungKey) = "Loading"

\* the handlers other than build end in the step that runs them, and a build
\* call is suspended only on the load of the prefix under its own cursor
OnlyOwnLoadSuspends ==
    /\ lastCall'.op \in {"initialize", "onContentChange", "didClose", "definition",
                         "preloadFromDocument"} => response'.kind # "suspended"
    /\ \A key \in OtherKeys :
          (BuildCallOn(key) /\ ~NeedsLoad(EngineState, key)) =>
              (response'.kind = "completions" /\ awaiting' = awaiting)
    /\ \A i \in 1..Len(awaiting') : ProviderKnows(awaiting'[i].currentPrefix)

\* C12: while the fetch of one key never completes, that key stays Loading,
\* and nothing else is blocked: the load of every other key settles, the
\* index and navigation handlers end in the step that runs them, a build
\* call with no active prefix or with another prefix that needs no load
\* returns at once, and a build call waiting for another key returns.
HungLoadBlocksNothingElse ==
    /\ [](HungKeyStaysLoading)
    /\ [][OnlyOwnLoadSuspends]_vars
    /\ \A key \in OtherKeys :
          (key \in loadingPromises \/ Len(Awaiting(key)) > 0)
              ~> (key \notin loadingPromises /\ Len(Awaiting(key)) = 0)

\* while rdf hangs, rdfs has been cached and a build call with no active
\* prefix has returned its terms
AnsweredWhileHung ==
    /\ KeyState(cachedVocabs, loadingPromises, HungKey) = "Loading"
    /\ KeyState(cachedVocabs, loadingPromises, "rdfs") = "Cached"
    /\ lastCall.op = "completion"
    /\ response.kind = "completions"
    /\ Len(response.results) = 1
    /\ response.results[1].currentPrefix = ""
    /\ response.results[1].vocabulary # {}

(***************************************************************************)
(* Strict-prefix completion waits for its vocabulary                       *)
(***************************************************************************)
\* a build call in an uncached key the provider knows is suspended, on the
\* load already in flight when there is one, else on a load it starts
StrictBuildWaits(key) ==
    (/\ BuildCallOn(key)
     /\ key \notin DOMAIN cachedVocabs
     /\ ProviderKnows(key))
    => /\ response'.kind = "suspended"
       /\ awaiting' = Append(awaiting, BuildRequest(lastCall'.uri, lastCall'.position))
       /\ key \in loadingPromises' /\ Count(fetching', key) = 1
       /\ key \in loadingPromises => fetching' = fetching

\* a suspended build call returns only in the step that settles the fetch of
\* its key, and after a successful load its list has the key's terms
ReturnsWhenLoadSettles(key) ==
    (Len(Awaiting(key)) > 0 /\ Awaiting(key)' # Awaiting(key) /\ ~BuildCallOn(key))
    => /\ lastCall'.op = "fetchSettles" /\ lastCall'.prefix = key
       /\ Awaiting(key)' = <<>>
       /\ Len(response'.results) = Len(Awaiting(key))
       /\ lastCall'.outcome = "dataset" =>
             \A i \in 1..Len(response'.results) :
                 /\ response'.results[i].currentPrefix = key
                 /\ Elements(VocabularyItems(key)) \subseteq response'.results[i].vocabulary

\* C13: a build call whose cursor is inside a prefix the provider knows and
\* the cache lacks does not return before the load of that prefix has
\* settled; it waits for the load in flight when there is one and starts
\* no second fetch; after a successful load its list contains the terms of
\* the prefix.
StrictBuildAwaitsLoad ==
    [][\A key \in VocabKeys : StrictBuildWaits(key) /\ ReturnsWhenLoadSettles(key)]_vars

\* the load of rdf has succeeded and the build call that waited for it has
\* returned rdf:Property
LoadedThenAnswered ==
    /\ lastCall.op = "fetchSettles"
    /\ lastCall.outcome = "dataset"
    /\ lastCall.prefix = "rdf"
    /\ Len(response.results) >= 1
    /\ "rdf:Property" \in response.results[1].vocabulary

(***************************************************************************)
(* Completion: the list build returns                                      *)
(***************************************************************************)
\* the results of the build calls that have just returned
Returned == IF response.kind = "completions" THEN Elements(response.results) ELSE {}

\* C14: build is deterministic: the document text, the cursor position, the
\* namespace inputs (taken from the text), the subjects of the index and the
\* content of the cache determine the items and their order, whatever the
\* order in which the index and the cache enumerate their entries.
BuildIsDeterministic ==
    \A result \in Returned :
        \A globalOrder \in Orderings(result.request.globalSubjects),
           cacheOrder \in Orderings(DOMAIN result.cache) :
            buildItems(result.request, result.cache, globalOrder, cacheOrder)
                = ReturnedItems(result)

\* a build call without active prefix has returned a list merged from two
\* subjects of the index and two cached vocabularies
MergedFromSeveralSources ==
    \E result \in Returned :
        /\ lastCall.op = "completion"
        /\ result.currentPrefix = ""
        /\ Cardinality(result.request.globalSubjects) >= 2
        /\ Cardinality(DOMAIN result.cache) >= 2
        /\ Len(ReturnedItems(result)) > 0

\* the labels of the syntax keywords
SyntaxKeywordLabels == {keywordItems[i].label : i \in 1..Len(keywordItems)}

\* the classes of the items outside the active prefix, as the specification
\* names them: subject reference, syntax keyword, everything else
RankByCategory(item) ==
    IF item.kind = "Reference" THEN 0
    ELSE IF item.kind = "Keyword" /\ item.label \in SyntaxKeywordLabels THEN 1
    ELSE 2

\* the classes by kind: reference, keyword (a syntax keyword or the prefix
\* keyword of a declared namespace), everything else
RankByKind(item) ==
    IF item.kind = "Reference" THEN 0 ELSE IF item.kind = "Keyword" THEN 1 ELSE 2

\* no item without the prefix precedes an item with the prefix
PrefixItemsFirst(items, prefix) ==
    \A i, j \in 1..Len(items) :
        (i < j /\ extractPrefix(items[j].label) = prefix)
            => extractPrefix(items[i].label) = prefix

\* the items without the prefix are in the order of their classes
RestInClassOrder(items, prefix, Rank(_)) ==
    \A i, j \in 1..Len(items) :
        (i < j /\ extractPrefix(items[i].label) # prefix
               /\ extractPrefix(items[j].label) # prefix)
            => Rank(items[i]) <= Rank(items[j])

\* the cached terms of the prefix are in the list
CachedTermsListed(items, cache, prefix) ==
    prefix \in DOMAIN cache =>
        \A term \in Elements(cache[prefix]) : \E i \in 1..Len(items) : items[i].label = term

\* C15 as stated: with the cursor inside a prefix P, the items with prefix P
\* come before all other items, and among the other items subject
\* references come before syntax keywords, which come before everything
\* else (prefix keywords of other namespaces included); the cached terms of
\* P are in the list.
RankedPrefixThenCategory ==
    \A result \in Returned :
        result.currentPrefix # "" =>
            /\ PrefixItemsFirst(ReturnedItems(result), result.currentPrefix)
            /\ RestInClassOrder(ReturnedItems(result), result.currentPrefix, RankByCategory)
            /\ CachedTermsListed(ReturnedItems(result), result.cache, result.currentPrefix)

\* C15 amended: with the cursor inside a prefix P, the items with prefix P
\* come before all other items, and among the other items subject
\* references come before the keywords (syntax keywords and prefix keywords
\* of other namespaces alike), which come before everything else; the
\* cached terms of P are in the list.
RankedPrefixThenKind ==
    \A result \in Returned :
        result.currentPrefix # "" =>
            /\ PrefixItemsFirst(ReturnedItems(result), result.currentPrefix)
            /\ RestInClassOrder(ReturnedItems(result), result.currentPrefix, RankByKind)
            /\ CachedTermsListed(ReturnedItems(result), result.cache, result.currentPrefix)

\* a list returned at rdf: with rdf cached that holds a term of rdf, a
\* subject reference outside rdf, the prefix keyword of another namespace
\* and a syntax keyword
HasItem(items, Test(_)) == \E i \in 1..Len(items) : Test(items[i])

RankedAtCachedPrefix ==
    \E result \in Returned :
        /\ result.currentPrefix = "rdf"
        /\ "rdf" \in DOMAIN result.cache
        /\ HasItem(ReturnedItems(result), LAMBDA item : item.label = "rdf:type")
        /\ HasItem(ReturnedItems(result),
                   LAMBDA item : item.kind = "Reference" /\ extractPrefix(item.label) # "rdf")
        /\ HasItem(ReturnedItems(result),
                   LAMBDA item : item.kind = "Keyword" /\ extractPrefix(item.label) = "constructor")
        /\ HasItem(ReturnedItems(result), LAMBDA item : item.label = "@prefix")

\* the merged candidates of a returned list, in merge order (line 240)
Candidates(result) ==
    allItems(BuildInputsTable[result.request.text].namespaces,
             BuildInputsTable[result.request.text].namespaceMap,
             Distinct(BuildInputsTable[result.request.text].subjectSet
                      \o InsertionOrder(result.request.globalSubjects)),
             vocabFromPrefix(result.cache, result.currentPrefix,
                             InsertionOrder(DOMAIN result.cache)))

\* the place of an item's source in the merge order: vocabulary term,
\* subject reference, prefix keyword, syntax keyword
SourceRank(item) ==
    IF item.kind \in {"Class", "Property"} THEN 0
    ELSE IF item.kind = "Reference" THEN 1
    ELSE IF item.label \notin SyntaxKeywordLabels THEN 2
    ELSE 3

NoLabelTwice(items) ==
    \A i, j \in 1..Len(items) : items[i].label = items[j].label => i = j

\* every candidate label is in the list, with the item of its first source
KeepsFirstCandidate(items, candidates) ==
    /\ \A c \in 1..Len(candidates) :
           \E i \in 1..Len(items) :
               /\ items[i].label = candidates[c].label
               /\ SourceRank(items[i]) <= SourceRank(candidates[c])
    /\ \A i \in 1..Len(items) :
           \E c \in 1..Len(candidates) :
               /\ candidates[c].label = items[i].label
               /\ candidates[c].kind = items[i].kind

\* the list does not decrease by bucket, then by label (labels in the order
\* of localeCompare)
OrderedByBucketThenLabel(items) ==
    \A i, j \in 1..Len(items) :
        i < j =>
            \/ localeCompare(Slice(items[i].sortText, 0, 3), Slice(items[j].sortText, 0, 3)) < 0
            \/ /\ Slice(items[i].sortText, 0, 3) = Slice(items[j].sortText, 0, 3)
               /\ localeCompare(items[i].label, items[j].label) <= 0

\* C16: the list returned by build has no label twice; of the merged
\* candidates with one label it keeps the first in merge order (vocabulary
\* terms, subject references, prefix keywords, syntax keywords); and it is
\* ordered non-decreasingly by bucket, then label.
DedupedAndSorted ==
    \A result \in Returned :
        /\ NoLabelTwice(ReturnedItems(result))
        /\ KeepsFirstCandidate(ReturnedItems(result), Candidates(result))
        /\ OrderedByBucketThenLabel(ReturnedItems(result))

\* a returned list for which a vocabulary term and a subject of the index
\* had the same label, rdf:type, and which spans several buckets
DuplicateCandidateMerged ==
    \E result \in Returned :
        /\ "rdf:type" \in result.request.globalSubjects
        /\ HasItem(Candidates(result),
                   LAMBDA item : item.label = "rdf:type" /\ item.kind = "Property")
        /\ HasItem(Candidates(result),
                   LAMBDA item : item.label = "rdf:type" /\ item.kind = "Reference")
        /\ HasItem(ReturnedItems(result),
                   LAMBDA item : item.label = "rdf:type" /\ item.kind = "Property")
        /\ HasItem(ReturnedItems(result), LAMBDA item : Slice(item.sortText, 0, 3) = "100")

\* the cached terms a build call with the given prefix is to draw
CachedTermsFor(cache, prefix) ==
    IF prefix # ""
    THEN {term \in UNION {Elements(cache[k]) : k \in DOMAIN cache} :
             prefix \in DOMAIN cache /\ term \in Elements(cache[prefix])}
    ELSE UNION {Elements(cache[k]) : k \in DOMAIN cache}

\* a build call returns in this step: the vocabulary candidates of its
\* result are the cached terms for its prefix, the cache being the one at
\* the return
DrawsCachedTerms ==
    response'.kind = "completions" =>
        \A i \in 1..Len(response'.results) :
            /\ response'.results[i].cache = cachedVocabs'
            /\ response'.results[i].vocabulary
                   = CachedTermsFor(cachedVocabs', response'.results[i].currentPrefix)
            /\ {item.label : item \in Elements(vocabFromPrefix(
                    cachedVocabs', response'.results[i].currentPrefix,
                    InsertionOrder(DOMAIN cachedVocabs')))}
                   = CachedTermsFor(cachedVocabs', response'.results[i].currentPrefix)

\* a build call without active prefix returns in the step of its request
\* and leaves the loads as they are
FuzzyStartsNoLoad ==
    (BuildCallOn("")) =>
        /\ response'.kind = "completions"
        /\ Len(response'.results) = 1
        /\ UNCHANGED engineVars

\* C17: the vocabulary candidates of build are, with an active prefix P,
\* exactly the cached terms of P and no term of another cached vocabulary,
\* and with no active prefix every term of every vocabulary cached at that
\* moment, obtained without starting or awaiting a load.
VocabularyCandidatesFromCache == [][DrawsCachedTerms /\ FuzzyStartsNoLoad]_vars

\* a build call inside rdf: has returned the terms of rdf and none of rdfs,
\* which is cached as well
StrictDrawsOwnTermsOnly ==
    \E result \in Returned :
        /\ lastCall.op = "completion"
        /\ result.currentPrefix = "rdf"
        /\ {"rdf", "rdfs"} \subseteq DOMAIN result.cache
        /\ result.vocabulary = {"rdf:Property", "rdf:type"}

(***************************************************************************)
(* Completion and the workspace index                                      *)
(***************************************************************************)
\* the subject labels the extractor finds in a text
SubjectLabels(text) == {entry.label : entry \in Elements(Contribution(text).subjects)}

\* the labels of the subject items of a build call at a position of an open
\* document (lines 206-214)
SubjectCandidates(uri, position) ==
    {abbreviateWithPrefixes(subject, BuildInputsTable[documents[uri]].namespaceMap, 1) :
        subject \in Elements(BuildInputsTable[documents[uri]].subjectSet)
                    \cup BuildRequest(uri, position).globalSubjects}

\* document B has just been reindexed with its current text: every subject
\* of that text is a subject candidate of the build calls in the other open
\* documents that have no active prefix or the prefix of the subject
ReindexedSubjectsOffered ==
    lastCall.op = "onContentChange" =>
        \A A \in DOMAIN documents \ {lastCall.uri} :
            \A subject \in SubjectLabels(documents[lastCall.uri]) :
                \A position \in CompletionPositions :
                    BuildRequest(A, position).currentPrefix \in {"", extractPrefix(subject)}
                        => abbreviateWithPrefixes(
                               subject, BuildInputsTable[documents[A]].namespaceMap, 1)
                           \in SubjectCandidates(A, position)

\* the step closes document B: a subject only B contributed is afterwards
\* no subject candidate of a build call in another open document, unless
\* the text of that document has it
ClosedSubjectsWithdrawn ==
    (lastCall'.op = "didClose" /\ lastCall'.uri \in DOMAIN docCache) =>
        \A subject \in {entry.label : entry \in Elements(docCache[lastCall'.uri].subjects)} :
            (\A other \in DOMAIN docCache \ {lastCall'.uri} :
                \A entry \in Elements(docCache[other].subjects) : entry.label # subject)
            => \A A \in DOMAIN documents' :
                   subject \in Elements(BuildInputsTable[documents'[A]].subjectSet)
                   \/ subject \notin DOMAIN subjectIndex'

\* C18: completion follows the index across documents: after
\* reindexDocument(B, text), where text has subject s, a build call in
\* another document A without active prefix or with the prefix of s returns
\* s as a subject candidate; after removeFromIndexes(B) a build call in A
\* no longer returns a subject only B contributed.
CompletionFollowsIndex == [](ReindexedSubjectsOffered) /\ [][ClosedSubjectsWithdrawn]_vars

\* a completion request on an open document has just run: the subjects its
\* build call got from collectGlobalSubjects (line 182), the index being
\* the one the call read
CollectedSubjects ==
    BuildRequest(lastCall.uri, lastCall.position).globalSubjects

CollectedFilter ==
    BuildRequest(lastCall.uri, lastCall.position).currentPrefix

BuildCallRan == lastCall.op = "completion" /\ lastCall.uri \in DOMAIN documents

\* C19 as stated: collectGlobalSubjects(prefixFilter) returns, with an empty
\* filter, every subject label of the index, and with a non-empty filter
\* exactly the subject labels whose prefix is prefixFilter.
CollectsLabelsWithPrefix ==
    BuildCallRan =>
        CollectedSubjects =
            IF CollectedFilter = "" THEN DOMAIN subjectIndex
            ELSE {label \in DOMAIN subjectIndex : extractPrefix(label) = CollectedFilter}

\* C19 amended: collectGlobalSubjects(prefixFilter) returns, with an empty
\* filter, every subject label of the index, and with a non-empty filter
\* exactly the subject labels whose prefix is prefixFilter together with the
\* subject labels that have no prefix, so that no returned label has another
\* prefix.
CollectsLabelsWithPrefixOrNone ==
    BuildCallRan =>
        /\ CollectedSubjects =
               IF CollectedFilter = "" THEN DOMAIN subjectIndex
               ELSE {label \in DOMAIN subjectIndex :
                        extractPrefix(label) \in {CollectedFilter, ""}}
        /\ CollectedFilter # "" =>
               \A label \in CollectedSubjects : extractPrefix(label) \in {CollectedFilter, ""}

\* a build call inside ex: has run on an index that holds a label with
\* prefix ex, a label with another prefix and a label without prefix
FilteredAmongThreeKinds ==
    /\ BuildCallRan
    /\ CollectedFilter = "ex"
    /\ {"ex:Bob", "rdf:type", "<http://e/Bob"} \subseteq DOMAIN subjectIndex
    /\ CollectedSubjects = {"ex:Bob", "<http://e/Bob"}

(***************************************************************************)
(* definition and references                                               *)
(***************************************************************************)
\* the locations filed in an index under a label
Filed(index, label) == IF label \in DOMAIN index THEN Elements(index[label]) ELSE {}

\* the union of the prefix lookup for the token, the prefix lookup for the
\* token with a trailing colon trimmed, the subject lookup and the symbol
\* lookup
LookupUnion(word) ==
    IF word = "" THEN {}
    ELSE Filed(prefixIndex, word) \cup Filed(prefixIndex, trimColon(word))
         \cup Filed(subjectIndex, word) \cup Filed(symbolIndex, word)

\* both answers are lists of locations with the given set of locations
BothReturn(d, r, locations) ==
    /\ d.kind = "locations"
    /\ r.kind = "locations"
    /\ Elements(d.locations) = locations
    /\ Elements(r.locations) = locations

\* C20: for the same open document, cursor position and index state,
\* definition and references return the same set of locations, the union of
\* the prefix lookup for the token, the prefix lookup for the token without
\* its trailing colon, the subject lookup and the symbol lookup.
DefinitionEqualsReferences ==
    (lastCall.op \in {"definition", "references"} /\ lastCall.uri \in DOMAIN documents) =>
        BothReturn(definition(lastCall.uri, lastCall.position),
                   references(lastCall.uri, lastCall.position),
                   LookupUnion(currentWord(documents[lastCall.uri], lastCall.position)))

(***************************************************************************)
(* rename                                                                  *)
(***************************************************************************)
\* the word a request at a position of a document is about; "" when the
\* document is not open
WordAt(uri, position) ==
    IF uri \in DOMAIN documents THEN currentWord(documents[uri], position) ELSE ""

\* the candidate locations of a word that validate against the live text
Validated(word) ==
    {loc \in LookupUnion(word) : rangeMatchesWord(documents, disk, loc.uri, loc.range, word)}

\* an answer of rename is the plan of a set of locations: null for the empty
\* set, else one edit with the new name for every location, under the
\* location's own document and under no other
IsPlanOf(r, locations) ==
    IF locations = {} THEN r.kind = "null"
    ELSE /\ r.kind = "edit"
         /\ DOMAIN r.changes = {loc.uri : loc \in locations}
         /\ \A u \in DOMAIN r.changes :
               /\ Elements(r.changes[u])
                    = {[range |-> loc.range, newText |-> NewName] :
                         loc \in {l \in locations : l.uri = u}}

\* C21: rename returns null exactly when no candidate location validates;
\* otherwise every validated location appears as an edit under its own
\* document with the new name as replacement text and no edit appears under
\* another document; the call changes neither the index nor any document.
RenamePlansValidatedLocations ==
    [][lastCall'.op = "rename" =>
          /\ IsPlanOf(response', Validated(WordAt(lastCall'.uri, lastCall'.position)))
          /\ UNCHANGED <<indexVars, documents, disk>>]_vars

(***************************************************************************)
(* indexWorkspace                                                          *)
(***************************************************************************)
\* what the bootstrap would make of the Indexer if it ran now
Bootstrapped == indexFiles(IndexerState, disk, listTurtleFiles(disk), 1)

\* C22: indexWorkspace runs its bootstrap at most once: a call made when the
\* workspace has been indexed changes nothing, also after documents indexed
\* by the first call were changed or removed (their entries are not
\* restored).
BootstrapRunsOnce ==
    [][(lastCall'.op = "initialize" /\ workspaceIndexed) =>
          UNCHANGED <<indexVars, workspaceIndexed, documents, disk>>]_vars

\* a second call has returned in a state where a file of the workspace that
\* the first call indexed is no longer tracked: running the bootstrap would
\* restore its entries
SecondCallRestoresNothing ==
    /\ lastCall.op = "initialize"
    /\ documents # EmptyMap
    /\ \E uri \in DOMAIN disk : disk[uri] # "" /\ uri \notin DOMAIN docCache
    /\ ~Bootstrapped.threw
    /\ Bootstrapped.docCache # docCache

(***************************************************************************)
(* Pruning of the indexes                                                  *)
(***************************************************************************)
\* no label of the index maps to an empty list
Pruned(index) == \A label \in DOMAIN index : index[label] # <<>>

\* C23: in every reachable state no label of a global index maps to an
\* empty location list: a label whose last location is removed has its key
\* deleted from the index.
NoLabelWithoutLocation ==
    /\ Pruned(prefixIndex)
    /\ Pruned(subjectIndex)
    /\ Pruned(symbolIndex)

\* the only open document has been closed and its removal returned: the last
\* locations of its labels are gone, and so are the labels
LastLocationsRemoved ==
    /\ lastCall.op = "didClose"
    /\ response.kind = "returned"
    /\ documents = EmptyMap
    /\ docCache = EmptyMap
    /\ DOMAIN prefixIndex = {}
    /\ DOMAIN subjectIndex = {}
    /\ DOMAIN symbolIndex = {}

(***************************************************************************)
(* getPrefixes, getSubjects, getSymbols                                    *)
(***************************************************************************)
\* the labels looked up: every indexed label, a label that no document
\* uses, and the names every object inherits
LookupLabels ==
    DOMAIN prefixIndex \cup DOMAIN subjectIndex \cup DOMAIN symbolIndex
    \cup {"ex:Nobody"} \cup ProtoKeys

\* the lookup returned a list holding exactly the locations filed under the
\* label, the empty list when the label is not indexed
ExactLookup(found, index, label) ==
    /\ found.array
    /\ Elements(found.items) = Filed(index, label)
    /\ label \notin DOMAIN index => found.items = <<>>

\* C24: getPrefixes, getSubjects and getSymbols are exact-match lookups: for
\* any label in any reachable state each returns precisely the locations
\* filed under that label, and an empty list for a label that is not indexed.
LookupsAreExact ==
    \A label \in LookupLabels :
        /\ ExactLookup(getPrefixes(label), prefixIndex, label)
        /\ ExactLookup(getSubjects(label), subjectIndex, label)
        /\ ExactLookup(getSymbols(label), symbolIndex, label)

(***************************************************************************)
(* The diagnostics pass                                                    *)
(***************************************************************************)
\* a diagnostics pass has run to its end and its findings were published
PassRan == lastCall.op = "onContentChange" /\ ~lastCall.failed

\* the text the pass ran over
PassText == documents[lastCall.uri]

\* the published findings of a kind
Found(kind) ==
    {lastCall.published[i] : i \in {j \in 1..Len(lastCall.published) :
                                       lastCall.published[j].kind = kind}}

\* the lines the pass scans, by number from 1: those that are not empty and
\* start with neither '@' nor '#'
ScannedLines(text) ==
    {i \in 1..Len(SplitLines(text)) :
        /\ Trim(SplitLines(text)[i]) # ""
        /\ CharAt(Trim(SplitLines(text)[i]), 0) \notin {"@", "#"}}

\* line i of the text without strings, IRIs and comments
Stripped(text, i) == Sanitize(Trim(SplitLines(text)[i]))

\* the prefix:local tokens of line i
TokensOn(text, i) == Elements(matchAllUses(Stripped(text, i), 0))

\* the prefixes the document declares
DeclaredIn(text) ==
    {normalizePrefix(collectNamespaceEntries(text)[i].prefix) :
        i \in 1..Len(collectNamespaceEntries(text))}

\* a finding of the kind is published for the token on line i
FlaggedToken(kind, i, token) ==
    \E f \in Found(kind) : f.range.start.line = i - 1 /\ f.token = token

\* every token is reported as undeclared exactly when its prefix is outside
\* the given set
UndeclaredExactlyOutside(known) ==
    \A i \in ScannedLines(PassText) : \A use \in TokensOn(PassText, i) :
        FlaggedToken("undeclared", i, use.text) <=> normalizePrefix(use.pref) \notin known

RECURSIVE NestingAfter(_, _)
\* the nesting depth of brackets and of parentheses after line i of the text
NestingAfter(text, i) ==
    IF i = 0 THEN [brackets |-> 0, parens |-> 0]
    ELSE IF i \notin ScannedLines(text) THEN NestingAfter(text, i - 1)
    ELSE [brackets |-> AtLeastZero(NestingAfter(text, i - 1).brackets
                                   + countChars(Stripped(text, i), "[")
                                   - countChars(Stripped(text, i), "]")),
          parens |-> AtLeastZero(NestingAfter(text, i - 1).parens
                                 + countChars(Stripped(text, i), "(")
                                 - countChars(Stripped(text, i), ")"))]

\* the nesting depth before line i
DepthBefore(text, i) == NestingAfter(text, i - 1).brackets + NestingAfter(text, i - 1).parens

\* the nesting depth after line i, as the pass computes it from the depth
\* before the line
DepthAfter(text, i) ==
    AtLeastZero(DepthBefore(text, i)
                + countChars(Stripped(text, i), "[") - countChars(Stripped(text, i), "]")
                + countChars(Stripped(text, i), "(") - countChars(Stripped(text, i), ")"))

\* the last character of the stripped line, white space aside
LastCharacter(text, i) ==
    CharAt(Trim(Stripped(text, i)), Len(Trim(Stripped(text, i))) - 1)

\* a missing-terminator finding is published for line i
FlaggedLine(i) == \E f \in Found("terminator") : f.range.start.line = i - 1

\* C26: a missing-terminator finding is reported for a scanned line exactly
\* when the nesting depth is 0 before and after the line, the stripped line
\* does not end with '.', ';' or ',' and the line contains internal white
\* space; a single-token line is never flagged.
TerminatorFindingExact ==
    PassRan =>
        \A i \in ScannedLines(PassText) :
            FlaggedLine(i) <=>
                /\ DepthBefore(PassText, i) = 0
                /\ DepthAfter(PassText, i) = 0
                /\ LastCharacter(PassText, i) \notin {".", ";", ","}
                /\ hasWhitespace(Trim(Stripped(PassText, i)))

\* the prefix declarations written in the text, one for every line that
\* declares a prefix in either style
DeclarationsIn(text) == NamespaceEntriesByLine(SplitLines(text), 1)

\* the number of declarations of a prefix label in the text
TimesDeclared(text, label) ==
    Cardinality({i \in 1..Len(DeclarationsIn(text)) : DeclarationsIn(text)[i].prefix = label})

\* the labels the text declares
LabelsDeclared(text) ==
    {DeclarationsIn(text)[i].prefix : i \in 1..Len(DeclarationsIn(text))}

\* C27: whenever a document declares the same prefix label more than once,
\* a duplicate-prefix-declaration finding is reported for that label,
\* whether or not the document parses with the structured extractor.
DuplicateDeclarationReported ==
    PassRan =>
        \A label \in LabelsDeclared(PassText) :
            TimesDeclared(PassText, label) > 1
            => \E f \in Found("duplicate") : f.prefix = label

\* the lines of the text that are not declarations
StatementLines(text) ==
    {i \in 1..Len(SplitLines(text)) : ~PrefixDeclMatch(Trim(SplitLines(text)[i])).matched}

\* the label is referenced in the text outside the prefix declarations
ReferencedElsewhere(text, label) ==
    \E i \in StatementLines(text) : \E use \in TokensOn(text, i) : use.pref = label

\* C28: an unused-prefix finding is reported for a declared prefix exactly
\* when the prefix is referenced nowhere in the document other than in its
\* own declaration, for both the @prefix and the PREFIX declaration styles.
UnusedPrefixReported ==
    PassRan =>
        \A label \in LabelsDeclared(PassText) :
            (\E f \in Found("unused") : f.prefix = label)
            <=> ~ReferencedElsewhere(PassText, label)

(***************************************************************************)
(* Unknown vocabulary terms                                                *)
(***************************************************************************)
\* the step is a diagnostics pass that ran to its end
PassStep == lastCall'.op = "onContentChange" /\ ~lastCall'.failed

\* the published findings of the step for the token on line i
FlaggedUnknown(i, token) ==
    \E j \in 1..Len(lastCall'.published) :
        /\ lastCall'.published[j].kind = "unknownTerm"
        /\ lastCall'.published[j].range.start.line = i - 1
        /\ lastCall'.published[j].token = token

\* the tokens of a text whose prefix resolves to a known vocabulary, each
\* with its line
KnownVocabularyTokens(text) ==
    {<<i, use>> \in UNION {{i} \X TokensOn(text, i) : i \in ScannedLines(text)} :
        /\ PrefixMapHas(text, normalizePrefix(use.pref))
        /\ use.pref \in ZazukoPrefixes}

\* what the pass does for a token of a known vocabulary: while the
\* vocabulary is not cached no finding, and one load of it pending; once it
\* is cached a finding exactly when the local name is not one of its terms
TokenChecked(i, use) ==
    IF use.pref \notin DOMAIN validTermsCache
    THEN /\ ~FlaggedUnknown(i, use.text)
         /\ use.pref \in loadingVocabs'
         /\ Count(diagFetching', use.pref) = 1
    ELSE /\ FlaggedUnknown(i, use.text) <=> use.suffix \notin Elements(ProviderTerms(use.pref))
         /\ Count(diagFetching', use.pref) = Count(diagFetching, use.pref)

\* C29: the diagnostics pass never waits for a vocabulary: for a token whose
\* prefix resolves to a known vocabulary that is not yet cached it reports
\* no unknown term, starts a background load, at most one per key at a
\* time, and returns; a pass that runs after the load has succeeded flags
\* the token exactly when its local name is not a term of the vocabulary.
UnknownTermsFromCacheOnly ==
    [][/\ \A key \in DOMAIN diagFetching' : diagFetching'[key] <= 1
       /\ PassStep =>
             /\ validTermsCache' = validTermsCache
             /\ \A token \in KnownVocabularyTokens(documents'[lastCall'.uri]) :
                   TokenChecked(token[1], token[2])]_vars

\* a pass has run after the load of rdf succeeded, over a document with a
\* term of the vocabulary, which is not flagged, and a name that is no term
\* of it, which is
FlaggedAfterLoad ==
    /\ PassRan
    /\ PassText = TextSparql
    /\ "rdf" \in DOMAIN validTermsCache
    /\ \E f \in Found("unknownTerm") : f.token = "rdf:x"
    /\ \A f \in Found("unknownTerm") : f.token # "rdf:type"

(***************************************************************************)
(* A failing diagnostics pass                                              *)
(***************************************************************************)
\* the change handler ran with a diagnostics pass that threw
PassFailed == lastCall.op = "onContentChange" /\ lastCall.failed

\* C30: if producing the diagnostics of a changed document fails, the
\* change handler does not fail: it publishes exactly one synthetic
\* diagnostic at the document start (line 0, characters 0 to 1) and
\* completes, the document being reindexed for that change.
FailedPassIsContained ==
    PassFailed =>
        /\ lastCall.published = <<[kind |-> "internal", range |-> Range(0, 0, 1)]>>
        /\ response.kind = "returned"
        /\ lastCall.uri \in DOMAIN docCache
        /\ docCache[lastCall.uri] = Contribution(documents[lastCall.uri])
        /\ HoldsContribution(lastCall.uri, Contribution(documents[lastCall.uri]))

(***************************************************************************)
(* The order of publishing and reindexing                                  *)
(***************************************************************************)
\* C31 as stated: when onContentChange sent the diagnostics of a document,
\* reindexDocument had run, so that the index held the contribution of the
\* document's new text and not an earlier one.
DiagnosticsSentAfterReindex ==
    lastCall.op = "onContentChange" =>
        lastCall.indexed = <<Contribution(documents[lastCall.uri])>>

\* C31 amended: onContentChange sends the diagnostics first, while the index
\* holds for the document what it held when the handler started, and calls
\* reindexDocument after that; when the handler returns, the index holds the
\* contribution of the new text.
DiagnosticsSentBeforeReindex ==
    [][lastCall'.op = "onContentChange" =>
          /\ lastCall'.indexed = ContributionRecord(IndexerState, lastCall'.uri)
          /\ response'.kind = "returned" =>
                /\ lastCall'.uri \in DOMAIN docCache'
                /\ docCache'[lastCall'.uri] = Contribution(documents'[lastCall'.uri])
                /\ HoldsExactly(prefixIndex', lastCall'.uri,
                                Contribution(documents'[lastCall'.uri]).prefixes)
                /\ HoldsExactly(subjectIndex', lastCall'.uri,
                                Contribution(documents'[lastCall'.uri]).subjects)
                /\ HoldsExactly(symbolIndex', lastCall'.uri,
                                Contribution(documents'[lastCall'.uri]).symbols)]_vars

\* a changed document's diagnostics were sent while the index held the
\* contribution of its earlier text, and the handler then reindexed it
SentOverEarlierContribution ==
    /\ lastCall.op = "onContentChange"
    /\ lastCall.indexed # <<>>
    /\ lastCall.indexed # <<Contribution(documents[lastCall.uri])>>
    /\ response.kind = "returned"
    /\ docCache[lastCall.uri] = Contribution(documents[lastCall.uri])

(***************************************************************************)
(* Locations per label and document                                        *)
(***************************************************************************)
\* no two locations filed under one label of index are in the same document
OncePerDocument(index) ==
    \A label \in DOMAIN index :
        \A i, j \in 1..Len(index[label]) :
            index[label][i].uri = index[label][j].uri => i = j

\* C32: in each of the three indexes a document has at most one location
\* per label, however often the label occurs in the document and however
\* many extraction passes find it.
OneLocationPerLabelAndDocument ==
    /\ OncePerDocument(prefixIndex)
    /\ OncePerDocument(subjectIndex)
    /\ OncePerDocument(symbolIndex)

(***************************************************************************)
(* Completion: the bucket of a match without a prefix under the cursor     *)
(***************************************************************************)
\* a is a prefix of b, letter case aside
IsPrefixIgnoringCase(a, b) ==
    /\ Len(a) <= Len(b)
    /\ ToLower(a) = ToLower(Slice(b, 0, Len(a)))

\* the items of the list that Matches holds for are the items of bucket 020,
\* and they come before every other item
MatchesRankedFirst(items, Matches(_)) ==
    /\ \A i \in 1..Len(items) : Matches(items[i]) <=> Slice(items[i].sortText, 0, 3) = "020"
    /\ \A i, j \in 1..Len(items) : (i < j /\ Matches(items[j])) => Matches(items[i])

\* C33 as stated: without a prefix under the cursor, an item is in bucket
\* 020, before the subject references, the syntax keywords and everything
\* else, exactly when its label is a prefix of the typed text, letter case
\* aside.
LabelWithinTypedRankedFirst ==
    \A result \in Returned :
        result.currentPrefix = "" =>
            MatchesRankedFirst(ReturnedItems(result),
                LAMBDA item : IsPrefixIgnoringCase(item.label, result.request.current))

\* C33 amended: without a prefix under the cursor, an item is in bucket 020,
\* before the subject references, the syntax keywords and everything else,
\* exactly when the typed text is a prefix of its label, letter case aside
\* (every item when nothing is typed).
TypedWithinLabelRankedFirst ==
    \A result \in Returned :
        result.currentPrefix = "" =>
            MatchesRankedFirst(ReturnedItems(result),
                LAMBDA item : IsPrefixIgnoringCase(result.request.current, item.label))

\* pre was typed without a prefix: the keyword PREFIX is in bucket 020,
\* the subject alice of the index in 050 and the keyword a in 100
TypedPreRanksPrefixKeyword ==
    \E result \in Returned :
        /\ result.currentPrefix = ""
        /\ result.request.current = "pre"
        /\ HasItem(ReturnedItems(result), LAMBDA item : item.sortText = "020_PREFIX")
        /\ HasItem(ReturnedItems(result), LAMBDA item : item.sortText = "050_alice")
        /\ HasItem(ReturnedItems(result), LAMBDA item : item.sortText = "100_a")

(***************************************************************************)
(* Reindexing a text that does not parse                                   *)
(***************************************************************************)
\* the contribution of a text by the line-oriented extractors alone
HeuristicContribution(text) ==
    DocCacheRecord(NamespaceEntriesByLine(LinesTable[text], 1),
                   SubjectsHeuristic(LinesTable[text], 1),
                   collectSymbolEntries(text),
                   collectNamespaceMap(NamespaceEntriesByLine(LinesTable[text], 1)))

\* reindexDocument has just run on a text that the parser rejects
ReindexedUnparsable == lastCall.op = "reindexDocument" /\ ~N3Parse(lastCall.text).ok

\* C34: when the parser rejects the text, reindexDocument returns, the
\* document's contribution is what the line-oriented extractors find in
\* the text, the indexes hold it, and the indexes agree with the
\* contribution records.
FallbackContributionInstalled ==
    ReindexedUnparsable =>
        /\ response.kind = "returned"
        /\ lastCall.uri \in DOMAIN docCache
        /\ docCache[lastCall.uri] = HeuristicContribution(lastCall.text)
        /\ HoldsContribution(lastCall.uri, HeuristicContribution(lastCall.text))
        /\ IndexesAgreeWithContributions

(***************************************************************************)
(* The nesting counters of the line scan                                   *)
(***************************************************************************)
\* the locals of the turns of the line scan of every modelled text,
\* computed once
ScanTurnsTable == [text \in IndexedTexts |-> ScanTurns(SplitLines(text), 1, 0, 0)]

TurnsOf(text) == ScanTurnsTable[text]

\* the delimiters of the string literals that may go over several lines
LongQuotes == {"\"\"\"", "'''"}

\* one step of reading a line at position i: the next position, the
\* delimiter that ends what the next position is inside of ("" when it is
\* outside string literals and IRIs), and the character read if it is
\* outside string literals, IRIs and comments
LexStep(line, i, inside) ==
    IF inside = ""
    THEN (IF Slice(line, i, i + 3) \in LongQuotes
          THEN [next |-> i + 3, inside |-> Slice(line, i, i + 3), code |-> ""]
          ELSE IF CharAt(line, i) \in {"\"", "'"}
          THEN [next |-> i + 1, inside |-> CharAt(line, i), code |-> ""]
          ELSE IF CharAt(line, i) = "<" THEN [next |-> i + 1, inside |-> ">", code |-> ""]
          ELSE IF CharAt(line, i) = "#" THEN [next |-> Len(line), inside |-> "", code |-> ""]
          ELSE [next |-> i + 1, inside |-> "", code |-> CharAt(line, i)])
    ELSE IF inside # ">" /\ CharAt(line, i) = "\\"
    THEN [next |-> i + 2, inside |-> inside, code |-> ""]
    ELSE IF StartsWithAt(line, inside, i)
    THEN [next |-> i + Len(inside), inside |-> "", code |-> ""]
    ELSE [next |-> i + 1, inside |-> inside, code |-> ""]

RECURSIVE CodeOfLine(_, _, _)
\* the characters of the line from position i that are outside string
\* literals, IRIs and comments
CodeOfLine(line, i, inside) ==
    IF i >= Len(line) THEN ""
    ELSE LexStep(line, i, inside).code
         \o CodeOfLine(line, LexStep(line, i, inside).next, LexStep(line, i, inside).inside)

RECURSIVE InsideAfter(_, _, _)
\* the long string the end of the line is inside of, or ""
InsideAfter(line, i, inside) ==
    IF i >= Len(line) THEN (IF inside \in LongQuotes THEN inside ELSE "")
    ELSE InsideAfter(line, LexStep(line, i, inside).next, LexStep(line, i, inside).inside)

RECURSIVE CodeLines(_, _, _)
\* the lines from line i without their strings, IRIs and comments, line i
\* beginning inside a long string or not
CodeLines(lines, i, inside) ==
    IF i > Len(lines) THEN <<>>
    ELSE <<CodeOfLine(lines[i], 0, inside)>>
         \o CodeLines(lines, i + 1, InsideAfter(lines[i], 0, inside))

\* the lines of every modelled text without their strings, IRIs and
\* comments, computed once
CodeLinesTable == [text \in IndexedTexts |-> CodeLines(SplitLines(text), 1, "")]

RECURSIVE OpenAfter(_, _, _, _)
\* the number of open brackets (or parentheses) after line i of the lines,
\* counted never below 0
OpenAfter(codeLines, i, open, close) ==
    IF i = 0 THEN 0
    ELSE AtLeastZero(OpenAfter(codeLines, i - 1, open, close)
                     + countChars(codeLines[i], open) - countChars(codeLines[i], close))

\* the two counters after a turn are not negative and are the numbers of
\* open brackets and of open parentheses outside strings, IRIs and comments
CountersFollowCode(turn, codeLines) ==
    /\ turn.bracketDepth >= 0
    /\ turn.parenDepth >= 0
    /\ turn.bracketDepth = OpenAfter(codeLines, turn.idx + 1, "[", "]")
    /\ turn.parenDepth = OpenAfter(codeLines, turn.idx + 1, "(", ")")

\* C35: after every line of the scan the open-bracket depth and the
\* open-paren depth are not negative, also after a line with more closing
\* than opening brackets or parentheses, and brackets or parentheses inside
\* quoted strings, IRIs or comments change neither counter.
CountersIgnoreLiterals ==
    PassRan =>
        \A k \in 1..Len(TurnsOf(PassText)) :
            CountersFollowCode(TurnsOf(PassText)[k], CodeLinesTable[PassText])


(***************************************************************************)
(* A build call suspended on a vocabulary load, and the index              *)
(***************************************************************************)
\* the labels of the subject items a build call makes of the subjects of
\* its own text and of the subjects it got from the index (lines 206-214)
SubjectItemLabels(request, globalSubjects) ==
    {abbreviateWithPrefixes(subject, BuildInputsTable[request.text].namespaceMap, 1) :
        subject \in Elements(BuildInputsTable[request.text].subjectSet) \cup globalSubjects}

\* the labels of the subject items in a returned list
ReturnedSubjectLabels(result) ==
    {item.label : item \in {it \in Elements(ReturnedItems(result)) : it.kind = "Reference"}}

\* the step suspends a build call: the subjects the call holds are those
\* collectGlobalSubjects gives for the index of the call (line 182)
SuspendedWithSubjectsOfCall ==
    (lastCall'.op = "completion" /\ response'.kind = "suspended") =>
        /\ Len(awaiting') = Len(awaiting) + 1
        /\ awaiting'[Len(awaiting')].globalSubjects
               = collectGlobalSubjects(awaiting'[Len(awaiting')].currentPrefix)

\* a suspended build call either stays suspended with what it holds or
\* returns in this step with the subjects it held, whatever the index has
\* become
ResumedWithSubjectsOfCall ==
    \A i \in 1..Len(awaiting) :
        \/ /\ i <= Len(awaiting')
           /\ awaiting'[i] = awaiting[i]
        \/ /\ response'.kind = "completions"
           /\ \E k \in 1..Len(response'.results) :
                 /\ response'.results[k].request = awaiting[i]
                 /\ response'.results[k].subjects = awaiting[i].globalSubjects

\* the build calls that return after a load: the subject items of each
\* list are made of the subjects of the call's text and of the subjects the
\* call held, and each of these has an item of its label
ReturnedFromHeldSubjects ==
    (lastCall.op = "fetchSettles" /\ response.kind = "completions") =>
        \A k \in 1..Len(response.results) :
            LET result == response.results[k]
                labels == SubjectItemLabels(result.request, result.request.globalSubjects)
                items == ReturnedItems(result)
            IN  /\ {item.label : item \in {it \in Elements(items) : it.kind = "Reference"}}
                       \subseteq labels
                /\ labels \subseteq {item.label : item \in Elements(items)}

\* C36: build reads the index once, before it awaits the vocabulary load:
\* the subject candidates a suspended call returns are those of the index
\* at the time of the call, even when reindexDocument or removeFromIndexes
\* ran while it was suspended.
SubjectsAreThoseOfTheCall ==
    /\ [][SuspendedWithSubjectsOfCall /\ ResumedWithSubjectsOfCall]_vars
    /\ []ReturnedFromHeldSubjects

\* a build call has returned after its load, and the index no longer gives
\* the subjects the call read: a document was reindexed or closed meanwhile
ReturnedOverChangedIndex ==
    /\ lastCall.op = "fetchSettles"
    /\ response.kind = "completions"
    /\ \E k \in 1..Len(response.results) :
          /\ response.results[k].subjects
                 # collectGlobalSubjects(response.results[k].currentPrefix)
          /\ ReturnedSubjectLabels(response.results[k])
                 # {label \in ReturnedSubjectLabels(response.results[k]) :
                        label \in SubjectItemLabels(response.results[k].request,
                              collectGlobalSubjects(response.results[k].currentPrefix))}


(***************************************************************************)
(* The edits of a rename plan                                              *)
(***************************************************************************)
\* no two edits of the list have the same range
RangesDiffer(edits) ==
    \A i \in 1..Len(edits) : \A j \in 1..Len(edits) :
        i # j => edits[i].range # edits[j].range

\* C37: in a rename edit plan the edits listed for one document never
\* contain two edits with the same range, for every index state reachable
\* through reindexDocument.
NoLocationEditedTwice ==
    (lastCall.op = "rename" /\ response.kind = "edit") =>
        \A u \in DOMAIN response.changes : RangesDiffer(response.changes[u])


(***************************************************************************)
(* rename and the documents that are not open                              *)
(***************************************************************************)
\* a document no editor has open and whose URI is not a file:// URI
UriUntitled == "untitled:Untitled-1"

\* a file of the workspace is deleted behind the server's back
DiskDelete(uri) ==
    /\ uri \in DOMAIN disk
    /\ disk' = DeleteKey(disk, uri)
    /\ lastCall' = [op |-> "diskDelete", uri |-> uri]
    /\ response' = NoResponse
    /\ UNCHANGED <<indexVars, workspaceIndexed, documents, engineVars, diagVars>>

\* the ranges and words rangeMatchesWord is called with
MatchRanges == {Range(0, 0, 6), Range(0, 0, 8)}
MatchWords == {"ex:Bob", "ex:Bobby"}

\* rangeMatchesWord called for a location, the open document passed when
\* there is one (line 503-504)
RangeMatchesWord(uri, range, word) ==
    /\ lastCall' = [op |-> "rangeMatchesWord", uri |-> uri, range |-> range, word |-> word]
    /\ response' = [kind |-> "boolean",
                    value |-> rangeMatchesWord(documents, disk, uri, range, word)]
    /\ UNCHANGED <<indexVars, workspaceIndexed, documents, disk, engineVars, diagVars>>

\* rename over workspace files that are written, emptied and deleted while
\* the index keeps their locations
NextRename ==
    \/ \E text \in DiskTexts : DiskWrite(UriC, text)
    \/ DiskDelete(UriC)
    \/ Initialize
    \/ \E text \in {TextBob, TextBobby} : OnContentChange(UriA, text)
    \/ DidClose(UriA)
    \/ \E position \in Positions : Rename(UriA, position)
    \/ \E uri \in {UriA, UriC, UriUntitled}, range \in MatchRanges, word \in MatchWords :
          RangeMatchesWord(uri, range, word)

SpecRename == Init /\ [][NextRename]_vars

\* the text of a document that is not open can be obtained: its URI is a
\* file:// URI and the file is readable and not empty
TextObtained(uri) ==
    /\ StartsWithAt(uri, "file://", 0)
    /\ uri \in DOMAIN disk
    /\ disk[uri] # ""

\* the characters a range covers in its start line of the text on disk
DiskSnippet(uri, range) ==
    IF range.start.line + 1 \in 1..Len(LinesTable[disk[uri]])
    THEN Slice(LinesTable[disk[uri]][range.start.line + 1],
               range.start.character, range.end.character)
    ELSE ""

\* what the spec states for a location of a document that is not open
IncludedWhenNotOpen(uri, range, word) ==
    IF TextObtained(uri) THEN DiskSnippet(uri, range) = word ELSE TRUE

\* the plan has an edit at the location
EditedAt(r, loc) ==
    /\ r.kind = "edit"
    /\ loc.uri \in DOMAIN r.changes
    /\ \E i \in 1..Len(r.changes[loc.uri]) : r.changes[loc.uri][i].range = loc.range

\* the candidate locations of the renamed word in documents that are not open
ClosedCandidates ==
    {loc \in LookupUnion(WordAt(lastCall.uri, lastCall.position)) :
        loc.uri \notin DOMAIN documents}

\* C38: for a candidate location in a document that is not open, rename
\* compares the token with the text read from disk; when that text cannot
\* be obtained (the file is unreadable or empty, or the URI is not a
\* file:// URI) the location is included in the plan without comparison.
ClosedDocumentsComparedWithDisk ==
    /\ (lastCall.op = "rename" /\ response.kind \in {"null", "edit"}) =>
          \A loc \in ClosedCandidates :
              EditedAt(response, loc)
                  <=> IncludedWhenNotOpen(loc.uri, loc.range,
                                          WordAt(lastCall.uri, lastCall.position))
    /\ (lastCall.op = "rangeMatchesWord" /\ lastCall.uri \notin DOMAIN documents) =>
          response.value
              = IncludedWhenNotOpen(lastCall.uri, lastCall.range, lastCall.word)

\* rename has planned an edit in a file that was deleted or emptied after
\* it was indexed
EditedWithoutComparison ==
    /\ lastCall.op = "rename"
    /\ \E loc \in ClosedCandidates :
          /\ ~TextObtained(loc.uri)
          /\ EditedAt(response, loc)


(***************************************************************************)
(* The depth the missing-terminator check uses                             *)
(***************************************************************************)
\* C39: in the line scan the depth after a line that the missing-terminator
\* check uses equals the sum of the open-bracket counter and the open-paren
\* counter after that line's update, for every line of every input.
DepthAfterIsSumOfCounters ==
    PassRan =>
        \A k \in 1..Len(TurnsOf(PassText)) :
            TurnsOf(PassText)[k].depthAfter
                = TurnsOf(PassText)[k].bracketDepth + TurnsOf(PassText)[k].parenDepth

====
